---- MODULE Spec2Model ----
(***************************************************************************)
(* SDN load balancer (POX controller component, src/load_balancer.py).     *)
(*                                                                         *)
(* One LoadBalancer instance attached to one switch connection: the        *)
(* PacketIn dispatcher, backend selection, the ARP responder, forward and  *)
(* reverse flow rules, the engine's own counters, the blocking dashboard   *)
(* notification and the periodic statistics report.                        *)
(*                                                                         *)
(* Addresses are 4-tuples of octets (IPAddr); str() of an address is       *)
(* IpStr, the dotted text the stats dictionary is keyed by.  Link          *)
(* addresses (EthAddr) are their text.  Python's 0-based list index i is   *)
(* SERVERS[i + 1] here.                                                    *)
(*                                                                         *)
(* The control thread is POX's cooperative scheduler: one handler runs at  *)
(* a time, and the only place a handler waits is urlopen inside            *)
(* _send_to_dashboard, so _handle_request is two steps (up to the call,    *)
(* and from its return to the end) and every other handler is one.         *)
(* Wall-clock readings are left out: start_time is the time origin 0, and  *)
(* the timestamp of a notification and the RPS figure of the report, which *)
(* nothing reads back, are not part of the state.  An ARP packet's hwsrc   *)
(* and protosrc are the frame's src and srcip.                             *)
(*                                                                         *)
(* The stats API server (src/api_server.py) is the second part: the        *)
(* module-level store, update_stats, reset_stats, calculate_stats and the  *)
(* request handlers.  Its clock is logical: every request answered reads   *)
(* the next value of time.time(), so timestamps order the requests.  The   *)
(* figures Python computes in floating point (averages, balance score)     *)
(* are exact fractions [num, den] here; rps, a ratio of wall-clock         *)
(* durations, is left out of the snapshot.                                 *)
(***************************************************************************)
EXTENDS Integers, Sequences, FiniteSets, TLC

VARIABLES
    algorithm,        \* self.algorithm: the policy name given to launch()
    HAS_URLLIB,       \* module flag: urllib.request could be imported
    server_index,     \* self.server_index: the round-robin cursor
    stats,            \* self.stats
    pc,               \* control thread: "idle", or "notifying" (inside urlopen)
    dashboard,        \* the notification of the forward event last handled
    connection_sent,  \* messages given to connection.send by the event last dispatched
    last,             \* the step last taken and the event it handled
    selected,         \* history: every return of _get_next_server, oldest first
    report,           \* the summary last logged by _report_stats
    stats_data,       \* api_server.py: the module-level stats store
    now,              \* api_server.py: the next reading of time.time()
    http,             \* api_server.py: the request last answered and its response
    updates,          \* history: the inputs of every update_stats since the last reset
    pending,          \* requests sent to the API server and not yet accepted
    handlers,         \* API handlers that have started and not yet answered
    engines           \* runs with several switches: the LoadBalancer of each connection

\* the state of the controller (load_balancer.py)
evars == <<algorithm, HAS_URLLIB, server_index, stats, pc, dashboard,
           connection_sent, last, selected, report, engines>>

\* the state of the API server (api_server.py)
svars == <<stats_data, now, http, updates, pending, handlers>>

vars == <<algorithm, HAS_URLLIB, server_index, stats, pc, dashboard,
          connection_sent, last, selected, report, engines, svars>>

---------------------------------------------------------------------------
(* Bounds of the model *)

\* forward events handled in one run
MaxRequests == 9

\* requests the API server answers in one run, after those that filled the
\* store before the run starts
MaxOps == 3

\* requests the callers of the API server send in one run, when they send
\* them concurrently
MaxSent == 3

\* the largest count of the backend whose share varies, and of each of the
\* two others, in the runs that compare balance scores
MaxShare == 30
MaxOther == 10

\* forward events handled on one switch connection, in the runs with
\* several switches
MaxPerSwitch == 2

\* hash values from -MaxHash to MaxHash are put through the synthesis of a
\* response time
MaxHash == 120

---------------------------------------------------------------------------
(* Configuration, load_balancer.py 26-34 *)

VIRTUAL_IP == <<10, 0, 0, 100>>

VIRTUAL_MAC == "00:00:00:00:00:FF"

SERVERS ==
    << [ip |-> <<10, 0, 0, 1>>, mac |-> "00:00:00:00:00:01", port |-> 1],
       [ip |-> <<10, 0, 0, 2>>, mac |-> "00:00:00:00:00:02", port |-> 2],
       [ip |-> <<10, 0, 0, 3>>, mac |-> "00:00:00:00:00:03", port |-> 3] >>

\* len(SERVERS)
NServers == Len(SERVERS)

\* of.OFPP_FLOOD, the OpenFlow 1.0 flood port
OFPP_FLOOD == 65531

\* str(IPAddr): dotted decimal text
IpStr(a) ==
    ToString(a[1]) \o "." \o ToString(a[2]) \o "." \o ToString(a[3])
        \o "." \o ToString(a[4])

\* the keys of self.stats["servers"]
ServerKeys == { IpStr(SERVERS[i].ip) : i \in 1..NServers }

\* policy names launch() may be given: the two known ones and an unknown one
Algorithms == {"round_robin", "least_connections", "weighted"}

---------------------------------------------------------------------------
(* Packet events.  A host is where a packet comes from: its addresses and  *)
(* the switch port it is attached to (topology.py 278-297, and one host    *)
(* that is not in the backend table).                                      *)

Hosts ==
    { [ip |-> SERVERS[1].ip, mac |-> SERVERS[1].mac, port |-> SERVERS[1].port],
      [ip |-> SERVERS[2].ip, mac |-> SERVERS[2].mac, port |-> SERVERS[2].port],
      [ip |-> <<10, 0, 0, 10>>, mac |-> "00:00:00:00:00:10", port |-> 4],
      [ip |-> <<10, 0, 0, 11>>, mac |-> "00:00:00:00:00:11", port |-> 5],
      [ip |-> <<10, 0, 0, 9>>, mac |-> "00:00:00:00:00:09", port |-> 7] }

\* the hosts that send address-resolution packets in the model
ArpHosts == { h \in Hosts : h.port \in {1, 4} }

\* destination / target addresses a packet may carry
Targets == { VIRTUAL_IP, <<10, 0, 0, 10>> }

NoAddr == <<0, 0, 0, 0>>

\* event.parsed with event.port; payload fields that a packet type does not
\* have are NoAddr / "none"
IpEvent(h, dst) ==
    [parsed |-> TRUE, type |-> "IP", port |-> h.port, src |-> h.mac,
     opcode |-> "none", srcip |-> h.ip, dstip |-> dst]

ArpEvent(h, op, target) ==
    [parsed |-> TRUE, type |-> "ARP", port |-> h.port, src |-> h.mac,
     opcode |-> op, srcip |-> h.ip, dstip |-> target]

\* a frame that is neither ARP nor IPv4 (LLDP, IPv6, ...)
OtherEvent(h) ==
    [parsed |-> TRUE, type |-> "OTHER", port |-> h.port, src |-> h.mac,
     opcode |-> "none", srcip |-> NoAddr, dstip |-> NoAddr]

\* a frame POX could not parse
UnparsedEvent(h) ==
    [parsed |-> FALSE, type |-> "OTHER", port |-> h.port, src |-> h.mac,
     opcode |-> "none", srcip |-> NoAddr, dstip |-> NoAddr]

NoEvent ==
    [parsed |-> FALSE, type |-> "OTHER", port |-> 0, src |-> "none",
     opcode |-> "none", srcip |-> NoAddr, dstip |-> NoAddr]

Events ==
    { IpEvent(h, d) : h \in Hosts, d \in Targets }
    \cup { ArpEvent(h, op, t) : h \in ArpHosts, op \in {"REQUEST", "REPLY"}, t \in Targets }
    \cup { OtherEvent(h) : h \in {x \in Hosts : x.port = 4} }
    \cup { UnparsedEvent(h) : h \in {x \in Hosts : x.port = 4} }

---------------------------------------------------------------------------
(* Messages given to connection.send *)

\* ofp_match.from_packet(packet, event.port): the exact flow key of the packet
MatchFromPacket(ev) ==
    [in_port |-> ev.port, dl_src |-> ev.src, dl_type |-> ev.type,
     nw_src |-> ev.srcip, nw_dst |-> ev.dstip]

\* the ofp_packet_out built by _handle_arp
ArpReply(ev) ==
    [msg |-> "packet_out",
     data |-> [type |-> "ARP", dst |-> ev.src, src |-> VIRTUAL_MAC,
               payload |-> [opcode |-> "REPLY",
                            hwsrc |-> VIRTUAL_MAC, hwdst |-> ev.src,
                            protosrc |-> VIRTUAL_IP, protodst |-> ev.srcip]],
     actions |-> << [type |-> "output", port |-> ev.port] >>]

\* the address is rewritten before the link address
ForwardFlowSwapped(ev, server) ==
    [msg |-> "flow_mod",
     match |-> MatchFromPacket(ev),
     idle_timeout |-> 10, hard_timeout |-> 30, priority |-> 100,
     actions |-> << [type |-> "set_nw_dst", nw_addr |-> server.ip],
                    [type |-> "set_dl_dst", dl_addr |-> server.mac],
                    [type |-> "output", port |-> server.port] >>,
     data |-> ev]

\* the ofp_flow_mod built by _handle_request for the selected server
ForwardFlow(ev, server) ==
    [msg |-> "flow_mod",
     match |-> MatchFromPacket(ev),
     idle_timeout |-> 10, hard_timeout |-> 30, priority |-> 100,
     actions |-> << [type |-> "set_dl_dst", dl_addr |-> server.mac],
                    [type |-> "set_nw_dst", nw_addr |-> server.ip],
                    [type |-> "output", port |-> server.port] >>,
     data |-> ev]

\* the source is rewritten to the virtual address but sent out of the ingress
\* port instead of being flooded
ReverseFlowIngress(ev) ==
    [msg |-> "flow_mod",
     match |-> MatchFromPacket(ev),
     idle_timeout |-> 10, hard_timeout |-> 30, priority |-> 100,
     actions |-> << [type |-> "set_nw_src", nw_addr |-> VIRTUAL_IP],
                    [type |-> "set_dl_src", dl_addr |-> VIRTUAL_MAC],
                    [type |-> "output", port |-> ev.port] >>,
     data |-> ev]

\* the ofp_flow_mod built by _handle_response
ReverseFlow(ev) ==
    [msg |-> "flow_mod",
     match |-> MatchFromPacket(ev),
     idle_timeout |-> 10, hard_timeout |-> 30, priority |-> 100,
     actions |-> << [type |-> "set_nw_src", nw_addr |-> VIRTUAL_IP],
                    [type |-> "set_dl_src", dl_addr |-> VIRTUAL_MAC],
                    [type |-> "output", port |-> OFPP_FLOOD] >>,
     data |-> ev]

---------------------------------------------------------------------------
(* Backend selection, _get_next_server *)

\* requests counter of SERVERS[i] in a stats dictionary
Requests(st, i) == st.servers[IpStr(SERVERS[i].ip)].requests

\* min(SERVERS, key = requests): scan in table order, keep the first
\* strictly smaller key.  best is the index kept so far, i the next to look at
RECURSIVE MinScan(_, _, _)
MinScan(st, best, i) ==
    IF i > NServers THEN best
    ELSE IF Requests(st, i) < Requests(st, best) THEN MinScan(st, i, i + 1)
    ELSE MinScan(st, best, i + 1)

\* min() that keeps the last of several smallest keys (<= where the scan has <)
RECURSIVE MinScanLast(_, _, _)
MinScanLast(st, best, i) ==
    IF i > NServers THEN best
    ELSE IF Requests(st, i) <= Requests(st, best) THEN MinScanLast(st, i, i + 1)
    ELSE MinScanLast(st, best, i + 1)

MinServerLast(st) == MinScanLast(st, 1, 2)

MinServer(st) == MinScan(st, 1, 2)

\* round_robin whose cursor advances by two
GetNextServerSkip(alg, idx, st) ==
    IF alg = "least_connections"
    THEN [server |-> MinServer(st), server_index |-> idx]
    ELSE [server |-> idx + 1, server_index |-> (idx + 2) % NServers]

\* the fallback branch returns SERVERS[server_index] and forgets to advance
GetNextServerStuckFallback(alg, idx, st) ==
    IF alg = "round_robin"
    THEN [server |-> idx + 1, server_index |-> (idx + 1) % NServers]
    ELSE IF alg = "least_connections"
    THEN [server |-> MinServer(st), server_index |-> idx]
    ELSE [server |-> idx + 1, server_index |-> idx]

\* the fallback branch gives up on balancing and returns the first server
GetNextServerFallbackFirst(alg, idx, st) ==
    IF alg = "round_robin"
    THEN [server |-> idx + 1, server_index |-> (idx + 1) % NServers]
    ELSE IF alg = "least_connections"
    THEN [server |-> MinServer(st), server_index |-> idx]
    ELSE [server |-> 1, server_index |-> (idx + 1) % NServers]

\* the cursor is never advanced
GetNextServerNoAdvance(alg, idx, st) ==
    IF alg = "least_connections"
    THEN [server |-> MinServer(st), server_index |-> idx]
    ELSE [server |-> idx + 1, server_index |-> idx]

\* the server returned (index into SERVERS) and the cursor left behind
GetNextServer(alg, idx, st) ==
    IF alg = "round_robin"
    THEN [server |-> idx + 1, server_index |-> (idx + 1) % NServers]
    ELSE IF alg = "least_connections"
    THEN [server |-> MinServer(st), server_index |-> idx]
    ELSE [server |-> idx + 1, server_index |-> (idx + 1) % NServers]

---------------------------------------------------------------------------
(* The stats store of api_server.py and the functions that work on it *)

\* deque(maxlen=50)
DequeMaxLen == 50

\* the keys of stats_data["servers"]
ApiServerKeys == {"10.0.0.1", "10.0.0.2", "10.0.0.3"}

\* stats_data as the module creates it, the clock reading 0
StatsDataStart ==
    [total_requests |-> 0,
     start_time |-> 0,
     servers |-> [k \in ApiServerKeys |-> [requests |-> 0, response_times |-> << >>]],
     recent_requests |-> << >>]

\* a full window refuses the new sample and keeps its oldest
DequeKeepOldest(q, x) ==
    IF Len(q) < DequeMaxLen THEN Append(q, x) ELSE q

\* a plain list in place of the deque: nothing is ever discarded
ListAppend(q, x) == Append(q, x)

\* deque.append on a deque with maxlen: a full deque drops its leftmost item
DequeAppend(q, x) ==
    IF Len(q) < DequeMaxLen THEN Append(q, x) ELSE Append(Tail(q), x)

\* the new entry put at the right end, the oldest entry at the left
\* discarded: what append does where appendleft is meant
DequeAppendRight(q, x) ==
    IF Len(q) < DequeMaxLen THEN Append(q, x) ELSE Append(Tail(q), x)

\* deque.appendleft on a deque with maxlen: a full deque drops its rightmost item
DequeAppendLeft(q, x) ==
    IF Len(q) < DequeMaxLen THEN << x >> \o q
    ELSE << x >> \o SubSeq(q, 1, Len(q) - 1)

\* dict.get(key, default) on a decoded JSON object: keys are the names present
DataGet(data, key, default) ==
    IF key \in data.keys THEN data[key] ELSE default

\* the remainder taken as C takes it, with the sign of the hash
SynthTruncated(h) == 50 + (IF h < 0 THEN 0 - ((0 - h) % 50) ELSE h % 50)

\* 50 + (hash(str(time.time())) % 50), h the value of hash(); Python's % with
\* a positive modulus is never negative
Synth(h) == 50 + (h % 50)

\* update_stats after its first statement (lines 124-137): t is the reading of
\* time.time() for the log entry
UpdateRest(sd, data, h, t) ==
    LET server_ip == DataGet(data, "server_ip", "None")
        sd1 == IF server_ip \in DOMAIN sd.servers
               THEN [sd EXCEPT
                       !.servers[server_ip].requests = @ + 1,
                       !.servers[server_ip].response_times =
                           DequeAppend(@, DataGet(data, "response_time", Synth(h)))]
               ELSE sd
    IN  [sd1 EXCEPT !.recent_requests =
            DequeAppendLeft(@, [timestamp |-> t,
                                client |-> DataGet(data, "client_ip", "unknown"),
                                server |-> server_ip])]

\* an update_stats that turns away a payload naming no known server
UpdateStatsKnownOnly(sd, data, h, t) ==
    IF DataGet(data, "server_ip", "None") \in DOMAIN sd.servers
    THEN UpdateRest([sd EXCEPT !.total_requests = @ + 1], data, h, t)
    ELSE sd

\* an update_stats that also restarts the uptime clock
UpdateStatsRestamps(sd, data, h, t) ==
    UpdateRest([sd EXCEPT !.total_requests = @ + 1, !.start_time = t], data, h, t)

\* update_stats
UpdateStats(sd, data, h, t) ==
    UpdateRest([sd EXCEPT !.total_requests = @ + 1], data, h, t)

\* a reset that forgets to clear the log
ResetStatsKeepsLog(sd, t) ==
    [total_requests |-> 0,
     start_time |-> t,
     servers |-> [k \in DOMAIN sd.servers |-> [requests |-> 0, response_times |-> << >>]],
     recent_requests |-> sd.recent_requests]

\* reset_stats at clock reading t
ResetStats(sd, t) ==
    [total_requests |-> 0,
     start_time |-> t,
     servers |-> [k \in DOMAIN sd.servers |-> [requests |-> 0, response_times |-> << >>]],
     recent_requests |-> << >>]

RECURSIVE SeqSum(_)
SeqSum(q) == IF q = << >> THEN 0 ELSE Head(q) + SeqSum(Tail(q))

\* sum(times) / len(times) if times else 0
Mean(times) ==
    IF times = << >> THEN [num |-> 0, den |-> 1]
    ELSE [num |-> SeqSum(times), den |-> Len(times)]

\* sum((requests - ideal) ** 2) over the three entries, times 9:
\* (requests - total / 3) ** 2 = (3 * requests - total) ** 2 / 9
RECURSIVE SquaredDeviations(_, _, _)
SquaredDeviations(sd, keys, total) ==
    IF keys = {} THEN 0
    ELSE LET k == CHOOSE x \in keys : TRUE
             d == 3 * sd.servers[k].requests - total
         IN  d * d + SquaredDeviations(sd, keys \ {k}, total)

\* the score with the penalty added where it is to be subtracted
BalanceScoreSignSlip(sd) ==
    LET total == sd.total_requests
        S == SquaredDeviations(sd, DOMAIN sd.servers, total)
    IN  IF total > 0
        THEN [num |-> 900 * total + 10 * S, den |-> 9 * total]
        ELSE [num |-> 100, den |-> 1]

\* the score without max(0, ...)
BalanceScoreUnclamped(sd) ==
    LET total == sd.total_requests
        S == SquaredDeviations(sd, DOMAIN sd.servers, total)
    IN  IF total > 0
        THEN [num |-> 900 * total - 10 * S, den |-> 9 * total]
        ELSE [num |-> 100, den |-> 1]

\* the balance score of calculate_stats (lines 103-109) as a fraction:
\* variance / ideal * 10 = (S / 27) * (3 / total) * 10 = 10 * S / (9 * total)
\* for S the sum above; total > 0 makes ideal > 0
BalanceScore(sd) ==
    LET total == sd.total_requests
        S == SquaredDeviations(sd, DOMAIN sd.servers, total)
    IN  IF total > 0
        THEN IF 900 * total - 10 * S > 0
             THEN [num |-> 900 * total - 10 * S, den |-> 9 * total]
             ELSE [num |-> 0, den |-> 1]
        ELSE [num |-> 100, den |-> 1]

\* every backend's samples, in the order of the servers dictionary
AllResponseTimes(sd) ==
    sd.servers["10.0.0.1"].response_times
        \o sd.servers["10.0.0.2"].response_times
        \o sd.servers["10.0.0.3"].response_times

\* a snapshot that lists only the ten newest entries of the log
CalculateStatsShortLog(sd) ==
    [total_requests |-> sd.total_requests,
     avg_response |-> Mean(AllResponseTimes(sd)),
     balance_score |-> BalanceScore(sd),
     servers |-> [k \in DOMAIN sd.servers |->
                    [requests |-> sd.servers[k].requests,
                     avg_response |-> Mean(sd.servers[k].response_times)]],
     recent_requests |-> SubSeq(sd.recent_requests, 1,
                                IF Len(sd.recent_requests) < 10
                                THEN Len(sd.recent_requests) ELSE 10)]

\* calculate_stats
CalculateStats(sd) ==
    [total_requests |-> sd.total_requests,
     avg_response |-> Mean(AllResponseTimes(sd)),
     balance_score |-> BalanceScore(sd),
     servers |-> [k \in DOMAIN sd.servers |->
                    [requests |-> sd.servers[k].requests,
                     avg_response |-> Mean(sd.servers[k].response_times)]],
     recent_requests |-> sd.recent_requests]

\* no request answered yet
NoHttp == [method |-> "none", path |-> "none", status |-> 0, body |-> "none"]

\* the API server right after run_server started it
ServiceStart ==
    /\ stats_data = StatsDataStart
    /\ now = 1
    /\ http = NoHttp
    /\ updates = << >>
    /\ pending = {}
    /\ handlers = {}

---------------------------------------------------------------------------
(* Initial state: LoadBalancer.__init__ *)

NoData == [client_ip |-> "none", server_ip |-> "none"]

NoReport == [total_requests |-> -1, servers |-> [k \in ServerKeys |-> [requests |-> 0, percentage |-> 0]]]

\* the controller after __init__, but for its two configuration values
EngineStart ==
    /\ server_index = 0
    /\ stats = [total_requests |-> 0,
                servers |-> [k \in ServerKeys |-> [requests |-> 0, load |-> 0]],
                start_time |-> 0]
    /\ pc = "idle"
    /\ dashboard = [state |-> "none", data |-> NoData, attempts |-> 0]
    /\ connection_sent = << >>
    /\ last = [step |-> "init", event |-> NoEvent]
    /\ selected = << >>
    /\ report = NoReport
    /\ engines = << >>

Init ==
    /\ algorithm \in Algorithms
    /\ HAS_URLLIB \in BOOLEAN
    /\ server_index = 0
    /\ stats = [total_requests |-> 0,
                servers |-> [k \in ServerKeys |-> [requests |-> 0, load |-> 0]],
                start_time |-> 0]
    /\ pc = "idle"
    /\ dashboard = [state |-> "none", data |-> NoData, attempts |-> 0]
    /\ connection_sent = << >>
    /\ last = [step |-> "init", event |-> NoEvent]
    /\ selected = << >>
    /\ report = NoReport
    /\ engines = << >>
    /\ ServiceStart

---------------------------------------------------------------------------
(* _handle_PacketIn and the handlers it dispatches to *)

\* the ARP branch does not look at the target address
ClassifyAnyTarget(ev) ==
    IF ~ev.parsed THEN "ignored"
    ELSE IF ev.type = "ARP" /\ ev.opcode = "REQUEST" THEN "arp"
    ELSE IF ev.type = "IP" /\ ev.dstip = VIRTUAL_IP THEN "request"
    ELSE IF ev.type = "IP" /\ \E i \in 1..NServers : ev.srcip = SERVERS[i].ip
    THEN "response"
    ELSE "ignored"

\* the source is looked at before the destination
ClassifyResponseFirst(ev) ==
    IF ~ev.parsed THEN "ignored"
    ELSE IF ev.type = "ARP" /\ ev.dstip = VIRTUAL_IP /\ ev.opcode = "REQUEST"
    THEN "arp"
    ELSE IF ev.type = "IP" /\ \E i \in 1..NServers : ev.srcip = SERVERS[i].ip
    THEN "response"
    ELSE IF ev.type = "IP" /\ ev.dstip = VIRTUAL_IP THEN "request"
    ELSE "ignored"

\* the branch of _handle_PacketIn an event takes
Classify(ev) ==
    IF ~ev.parsed THEN "ignored"
    ELSE IF ev.type = "ARP" /\ ev.dstip = VIRTUAL_IP /\ ev.opcode = "REQUEST"
    THEN "arp"
    ELSE IF ev.type = "IP" /\ ev.dstip = VIRTUAL_IP THEN "request"
    ELSE IF ev.type = "IP" /\ \E i \in 1..NServers : ev.srcip = SERVERS[i].ip
    THEN "response"
    ELSE "ignored"

\* only total_requests is incremented
CountRequestTotalOnly(st, key) == [st EXCEPT !.total_requests = @ + 1]

\* stats after the two increments of _handle_request for the server keyed key
CountRequest(st, key) ==
    LET st1 == [st EXCEPT !.total_requests = @ + 1]
    IN  [st1 EXCEPT !.servers[key].requests = @ + 1]

\* what _handle_response sends: next(...) finds the first table entry whose
\* address is the packet's source; none found sends nothing
ResponseMessages(ev) ==
    LET found == { i \in 1..NServers : ev.srcip = SERVERS[i].ip }
    IN  IF found = {} THEN << >> ELSE << ReverseFlow(ev) >>

\* the reply is sent on the ingress port and flooded as well
ArpMessagesFlooded(ev) ==
    << ArpReply(ev),
       [ArpReply(ev) EXCEPT !.actions = << [type |-> "output", port |-> OFPP_FLOOD] >>] >>

\* what _handle_arp sends
ArpMessages(ev) == << ArpReply(ev) >>

HandleArp(ev) ==
    /\ connection_sent' = ArpMessages(ev)
    /\ UNCHANGED <<server_index, stats, pc, dashboard, selected>>

\* the backend is picked by the client's address
HandleRequestBySource(ev) ==
    LET r    == [server |-> (ev.srcip[4] % NServers) + 1, server_index |-> server_index]
        key  == IpStr(SERVERS[r.server].ip)
        data == [client_ip |-> IpStr(ev.srcip), server_ip |-> key]
    IN  /\ stats.total_requests < MaxRequests
        /\ server_index' = r.server_index
        /\ selected' = Append(selected, [index |-> server_index, server |-> r.server])
        /\ stats' = CountRequest(stats, key)
        /\ IF HAS_URLLIB
           THEN /\ dashboard' = [state |-> "pending", data |-> data, attempts |-> 1]
                /\ pc' = "notifying"
                /\ connection_sent' = << >>
           ELSE /\ dashboard' = [state |-> "disabled", data |-> data, attempts |-> 0]
                /\ pc' = "idle"
                /\ connection_sent' = << ForwardFlow(ev, SERVERS[r.server]) >>

\* _handle_request up to the call of urlopen (or to its end, when the
\* notification is disabled)
HandleRequest(ev) ==
    LET r    == GetNextServer(algorithm, server_index, stats)
        key  == IpStr(SERVERS[r.server].ip)
        data == [client_ip |-> IpStr(ev.srcip), server_ip |-> key]
    IN  /\ stats.total_requests < MaxRequests
        /\ server_index' = r.server_index
        /\ selected' = Append(selected, [index |-> server_index, server |-> r.server])
        /\ stats' = CountRequest(stats, key)
        /\ IF HAS_URLLIB
           THEN /\ dashboard' = [state |-> "pending", data |-> data, attempts |-> 1]
                /\ pc' = "notifying"
                /\ connection_sent' = << >>
           ELSE /\ dashboard' = [state |-> "disabled", data |-> data, attempts |-> 0]
                /\ pc' = "idle"
                /\ connection_sent' = << ForwardFlow(ev, SERVERS[r.server]) >>

HandleResponse(ev) ==
    /\ connection_sent' = ResponseMessages(ev)
    /\ UNCHANGED <<server_index, stats, pc, dashboard, selected>>

Ignore(ev) ==
    /\ connection_sent' = << >>
    /\ UNCHANGED <<server_index, stats, pc, dashboard, selected>>

PacketIn(ev) ==
    /\ pc = "idle"
    /\ last' = [step |-> "packet", event |-> ev]
    /\ UNCHANGED <<algorithm, HAS_URLLIB, report>>
    /\ CASE Classify(ev) = "arp"      -> HandleArp(ev)
         [] Classify(ev) = "request"  -> HandleRequest(ev)
         [] Classify(ev) = "response" -> HandleResponse(ev)
         [] OTHER                     -> Ignore(ev)

\* how urlopen ends: a 200 answer, an URLError (refused, HTTP error), or the
\* 1 second timeout
Outcomes == {"ok", "error", "timeout"}

\* no except clause: a failed urlopen raises out of _handle_request, and the
\* flow rule is never installed
DashboardReturnRaises(outcome) ==
    /\ pc = "notifying"
    /\ dashboard' = [dashboard EXCEPT !.state = outcome]
    /\ connection_sent' =
           IF outcome = "ok"
           THEN Append(connection_sent,
                       ForwardFlow(last.event, SERVERS[selected[Len(selected)].server]))
           ELSE connection_sent
    /\ pc' = "idle"
    /\ last' = [step |-> "return", event |-> last.event]
    /\ UNCHANGED <<algorithm, HAS_URLLIB, server_index, stats, selected, report>>

\* urlopen returns or raises inside _send_to_dashboard; the except clause
\* swallows the error and _handle_request goes on to install the flow rule
DashboardReturn(outcome) ==
    /\ pc = "notifying"
    /\ dashboard' = [dashboard EXCEPT !.state = outcome]
    /\ connection_sent' =
           Append(connection_sent,
                  ForwardFlow(last.event, SERVERS[selected[Len(selected)].server]))
    /\ pc' = "idle"
    /\ last' = [step |-> "return", event |-> last.event]
    /\ UNCHANGED <<algorithm, HAS_URLLIB, server_index, stats, selected, report>>

\* percentage with one decimal ("%.1f"), in tenths, rounded half up
Percentage(requests, total) ==
    IF total > 0 THEN (requests * 2000 + total) \div (2 * total) ELSE 0

\* a report that starts a new reporting period
ReportStatsRestarts ==
    /\ pc = "idle"
    /\ report' = [total_requests |-> stats.total_requests,
                  servers |-> [k \in ServerKeys |->
                      [requests |-> stats.servers[k].requests,
                       percentage |-> Percentage(stats.servers[k].requests,
                                                 stats.total_requests)]]]
    /\ last' = [step |-> "tick", event |-> NoEvent]
    /\ stats' = [stats EXCEPT !.total_requests = 0]
    /\ UNCHANGED <<algorithm, HAS_URLLIB, server_index, pc, dashboard,
                   connection_sent, selected>>

\* _report_stats, fired by the recurring Timer: logs a summary
ReportStats ==
    /\ pc = "idle"
    /\ report' = [total_requests |-> stats.total_requests,
                  servers |-> [k \in ServerKeys |->
                      [requests |-> stats.servers[k].requests,
                       percentage |-> Percentage(stats.servers[k].requests,
                                                 stats.total_requests)]]]
    /\ last' = [step |-> "tick", event |-> NoEvent]
    /\ UNCHANGED <<algorithm, HAS_URLLIB, server_index, stats, pc, dashboard,
                   connection_sent, selected>>

\* the controller on its own: the API server is not part of the run
Next ==
    \/ \E ev \in Events : PacketIn(ev) /\ UNCHANGED <<svars, engines>>
    \/ \E outcome \in Outcomes : DashboardReturn(outcome) /\ UNCHANGED <<svars, engines>>
    \/ ReportStats /\ UNCHANGED <<svars, engines>>

Spec == Init /\ [][Next]_vars

---------------------------------------------------------------------------
(* The API server on its own: APIHandler answering one request at a time.  *)
(* A run starts with update requests already waiting at the server, so     *)
(* that the windows can overflow within a run; the requests that the run   *)
(* chooses follow at clock readings 1..MaxOps.                             *)

\* the JSON object {}: no key is present
EmptyObject ==
    [keys |-> {}, server_ip |-> "none", response_time |-> 0, client_ip |-> "none"]

\* JSON bodies posted to /update: as the controller sends them (no
\* response_time), with a response_time, without client_ip, and the empty
\* object; 10.0.0.9 is not a key of the store
ApiPayloads ==
    { [keys |-> {"server_ip", "client_ip"}, server_ip |-> s,
       response_time |-> 0, client_ip |-> "10.0.0.10"] :
          s \in ApiServerKeys \cup {"10.0.0.9"} }
    \cup
    { [keys |-> {"server_ip", "client_ip", "response_time"}, server_ip |-> s,
       response_time |-> 120, client_ip |-> "10.0.0.11"] :
          s \in {"10.0.0.1", "10.0.0.9"} }
    \cup
    { [keys |-> {"server_ip"}, server_ip |-> "10.0.0.2",
       response_time |-> 0, client_ip |-> "none"],
      EmptyObject }

\* values of hash(str(time.time())): any integer, of either sign
HashValues == {-1, 100}

\* the hash values that make a difference for a body: the hash is used only
\* for a known server without a response_time
HashChoices(data) ==
    IF /\ DataGet(data, "server_ip", "None") \in ApiServerKeys
       /\ "response_time" \notin data.keys
    THEN HashValues ELSE {0}

\* A fill is <<n1, n2, n3>>: n1 updates for the first backend, then n2 for
\* the second, then n3 for the third.
FillSize(p) == p[1] + p[2] + p[3]

\* the j-th update request of fill p, with a response_time that tells the
\* requests apart
FillRequest(p, j) ==
    [id |-> j, caller |-> "controller",
     req |-> [method |-> "POST", path |-> "/update",
              data |-> [keys |-> {"server_ip", "client_ip", "response_time"},
                        server_ip |-> IF j <= p[1] THEN "10.0.0.1"
                                      ELSE IF j <= p[1] + p[2] THEN "10.0.0.2"
                                      ELSE "10.0.0.3",
                        response_time |-> 1000 + j,
                        client_ip |-> "10.0.0.12"]]]

\* the server starts with the requests of fill p waiting in its listen
\* queue; the clock is set so that the last of them is answered at reading 0
StartsFilled(p) ==
    /\ stats_data = [StatsDataStart EXCEPT !.start_time = 1 - FillSize(p)]
    /\ now = 1 - FillSize(p)
    /\ http = NoHttp
    /\ updates = << >>
    /\ pending = { FillRequest(p, j) : j \in 1..FillSize(p) }
    /\ handlers = {}

\* the fills of the runs that look at the windows: empty, and just below
\* and above the capacity of the deques
Fills == { <<0, 0, 0>>, <<48, 0, 0>>, <<52, 0, 0>>, <<57, 0, 0>> }

InitService ==
    /\ algorithm = "round_robin"
    /\ HAS_URLLIB = TRUE
    /\ EngineStart
    /\ \E p \in Fills : StartsFilled(p)

\* the request that has waited longest: the listen queue is first in, first out
Oldest(q) == CHOOSE r \in q : \A x \in q : r.id <= x.id

\* do_POST for /update, for the request at the head of the listen queue
ServeQueued ==
    /\ pending # {}
    /\ Oldest(pending).req.path = "/update"
    /\ LET r == Oldest(pending)
       IN \E h \in HashChoices(r.req.data) :
             /\ stats_data' = UpdateStats(stats_data, r.req.data, h, now)
             /\ updates' = Append(updates, [data |-> r.req.data, h |-> h, t |-> now])
             /\ pending' = pending \ {r}
    /\ now' = now + 1
    /\ http' = [method |-> "POST", path |-> "/update", status |-> 200,
                body |-> [status |-> "ok"]]
    /\ UNCHANGED <<evars, handlers>>

\* do_POST for /update: update_stats, then 200 {"status": "ok"}
PostUpdate(data, h) ==
    /\ pending = {}
    /\ now <= MaxOps
    /\ stats_data' = UpdateStats(stats_data, data, h, now)
    /\ updates' = Append(updates, [data |-> data, h |-> h, t |-> now])
    /\ now' = now + 1
    /\ http' = [method |-> "POST", path |-> "/update", status |-> 200,
                body |-> [status |-> "ok"]]
    /\ UNCHANGED <<evars, pending, handlers>>

\* a /reset that also clears the counters of the controller
PostResetClearsEngine ==
    /\ pending = {}
    /\ now <= MaxOps
    /\ stats_data' = ResetStats(stats_data, now)
    /\ updates' = << >>
    /\ now' = now + 1
    /\ http' = [method |-> "POST", path |-> "/reset", status |-> 200,
                body |-> [status |-> "reset"]]
    /\ stats' = [stats EXCEPT
                   !.total_requests = 0,
                   !.servers = [k \in ServerKeys |-> [requests |-> 0, load |-> 0]]]
    /\ UNCHANGED <<algorithm, HAS_URLLIB, server_index, pc, dashboard,
                   connection_sent, last, selected, report, engines,
                   pending, handlers>>

\* do_POST for /reset: reset_stats, then 200 {"status": "reset"}
PostReset ==
    /\ pending = {}
    /\ now <= MaxOps
    /\ stats_data' = ResetStats(stats_data, now)
    /\ updates' = << >>
    /\ now' = now + 1
    /\ http' = [method |-> "POST", path |-> "/reset", status |-> 200,
                body |-> [status |-> "reset"]]
    /\ UNCHANGED <<evars, pending, handlers>>

\* a /stats that hands out the log and empties it
GetStatsDrains ==
    /\ pending = {}
    /\ now <= MaxOps
    /\ http' = [method |-> "GET", path |-> "/stats", status |-> 200,
                body |-> CalculateStats(stats_data)]
    /\ stats_data' = [stats_data EXCEPT !.recent_requests = << >>]
    /\ now' = now + 1
    /\ UNCHANGED <<evars, updates, pending, handlers>>

\* do_GET for /stats: 200 with the snapshot of calculate_stats
GetStats ==
    /\ pending = {}
    /\ now <= MaxOps
    /\ http' = [method |-> "GET", path |-> "/stats", status |-> 200,
                body |-> CalculateStats(stats_data)]
    /\ now' = now + 1
    /\ UNCHANGED <<evars, stats_data, updates, pending, handlers>>

NextService ==
    \/ ServeQueued
    \/ \E data \in ApiPayloads : \E h \in HashChoices(data) : PostUpdate(data, h)
    \/ PostReset
    \/ GetStats

SpecService == InitService /\ [][NextService]_vars

---------------------------------------------------------------------------
(* The API server and the requests it does not serve: paths no handler     *)
(* knows, OPTIONS, and /update requests that do_POST or update_stats       *)
(* cannot work on.  An exception in a handler is caught by the server      *)
(* loop, which logs it and closes the connection: the caller gets no       *)
(* status line, written as status 0 here.                                  *)

\* request paths: the three the handlers know, and two they do not
Paths == {"/stats", "/update", "/reset", "/", "/stats/"}

\* a do_GET that resets on GET /reset
GetOtherResets(path) ==
    /\ pending = {}
    /\ path # "/stats"
    /\ http' = [method |-> "GET", path |-> path, status |-> 404, body |-> "none"]
    /\ stats_data' = IF path = "/reset" THEN ResetStats(stats_data, now) ELSE stats_data
    /\ UNCHANGED <<evars, now, updates, pending, handlers>>

\* do_GET for a path other than /stats: 404
GetOther(path) ==
    /\ pending = {}
    /\ path # "/stats"
    /\ http' = [method |-> "GET", path |-> path, status |-> 404, body |-> "none"]
    /\ UNCHANGED <<evars, stats_data, now, updates, pending, handlers>>

\* do_POST for a path other than /update and /reset: 404, the body unread
PostOther(path) ==
    /\ pending = {}
    /\ path \notin {"/update", "/reset"}
    /\ http' = [method |-> "POST", path |-> path, status |-> 404, body |-> "none"]
    /\ UNCHANGED <<evars, stats_data, now, updates, pending, handlers>>

\* do_OPTIONS: 200 with the CORS headers and no body, whatever the path
Options(path) ==
    /\ pending = {}
    /\ http' = [method |-> "OPTIONS", path |-> path, status |-> 200, body |-> "none"]
    /\ UNCHANGED <<evars, stats_data, now, updates, pending, handlers>>

\* the bodies update_stats is never called for: int() fails on a missing
\* Content-Length, json.loads on a body that is not JSON
UnreadBodies == {"no Content-Length", "not JSON"}

\* the bodies that make update_stats raise: a JSON value that is not an
\* object has no get(), a server_ip that is a list or an object cannot be
\* looked up in the servers dictionary
RaisingBodies == {"not an object", "unhashable server_ip"}

\* do_POST for /update, raising in line 56 or line 58
PostUpdateUnread(body) ==
    /\ pending = {}
    /\ http' = [method |-> "POST", path |-> "/update", status |-> 0, body |-> body]
    /\ UNCHANGED <<evars, stats_data, now, updates, pending, handlers>>

\* do_POST for /update, update_stats raising in line 124 or line 125: line
\* 122 has counted the request by then
PostUpdateRaises(body) ==
    /\ pending = {}
    /\ stats_data.total_requests - Len(updates) < MaxOps
    /\ stats_data' = [stats_data EXCEPT !.total_requests = @ + 1]
    /\ http' = [method |-> "POST", path |-> "/update", status |-> 0, body |-> body]
    /\ UNCHANGED <<evars, now, updates, pending, handlers>>

\* the well-formed updates of these runs
PlainPayloads ==
    { d \in ApiPayloads : d.keys = {"server_ip", "client_ip"}
                            /\ d.server_ip \in {"10.0.0.1", "10.0.0.9"} }

NextPlumbing ==
    \/ ServeQueued
    \/ \E data \in PlainPayloads : \E h \in HashChoices(data) : PostUpdate(data, h)
    \/ PostReset
    \/ \E path \in Paths : GetOther(path)
    \/ \E path \in Paths : PostOther(path)
    \/ \E path \in Paths : Options(path)
    \/ \E body \in UnreadBodies : PostUpdateUnread(body)
    \/ \E body \in RaisingBodies : PostUpdateRaises(body)

SpecPlumbing == InitService /\ [][NextPlumbing]_vars

---------------------------------------------------------------------------
(* One caller reading back its own update.  The dashboard posts an update  *)
(* and, once it has the 200, queries /stats.  The controller's requests    *)
(* are around it in the listen queue: m updates ahead of the dashboard's   *)
(* update, a /stats query and n updates behind it.                         *)

\* the update the dashboard posts, as the k-th request the server receives
OwnUpdate(k) ==
    [id |-> k, caller |-> "dashboard",
     req |-> [method |-> "POST", path |-> "/update",
              data |-> [keys |-> {"server_ip", "client_ip"},
                        server_ip |-> "10.0.0.1",
                        response_time |-> 0,
                        client_ip |-> "10.0.0.10"]]]

\* a /stats query of caller c, as the k-th request the server receives
Query(c, k) ==
    [id |-> k, caller |-> c,
     req |-> [method |-> "GET", path |-> "/stats", data |-> EmptyObject]]

\* the dashboard's query: sent last, it is behind everything in the queue
OwnQuery == Query("dashboard", 4 * DequeMaxLen)

\* how many updates of the controller are queued ahead of the dashboard's
\* update, and how many behind it
ReadAhead == {0, 1}
ReadBehind == {1, 2, DequeMaxLen - 1, DequeMaxLen}

InitRead ==
    /\ algorithm = "round_robin"
    /\ HAS_URLLIB = TRUE
    /\ EngineStart
    /\ stats_data = StatsDataStart
    /\ now = 1
    /\ http = NoHttp
    /\ updates = << >>
    /\ handlers = {}
    /\ \E m \in ReadAhead : \E n \in ReadBehind :
          pending =
             { FillRequest(<<0, m + n + 2, 0>>, j) :
                  j \in (1..m) \cup ((m + 3)..(m + n + 2)) }
             \cup { OwnUpdate(m + 1), Query("controller", m + 2) }

\* do_GET for /stats, for the request at the head of the listen queue
ServeQueuedStats ==
    /\ pending # {}
    /\ Oldest(pending).req.path = "/stats"
    /\ http' = [method |-> "GET", path |-> "/stats", status |-> 200,
                body |-> CalculateStats(stats_data)]
    /\ pending' = pending \ {Oldest(pending)}
    /\ now' = now + 1
    /\ UNCHANGED <<evars, stats_data, updates, handlers>>

\* the dashboard has the 200 of its update and sends its query, once: a
\* query answered last of all has been sent before
SendOwnQuery ==
    /\ \A r \in pending : r.caller # "dashboard"
    /\ \E j \in 1..Len(updates) : updates[j].data.client_ip = "10.0.0.10"
    /\ ~(pending = {} /\ http.path = "/stats")
    /\ pending' = pending \cup {OwnQuery}
    /\ UNCHANGED <<evars, stats_data, now, http, updates, handlers>>

NextRead ==
    \/ ServeQueued
    \/ ServeQueuedStats
    \/ SendOwnQuery

SpecRead == InitRead /\ [][NextRead]_vars

---------------------------------------------------------------------------
(* The balance score over distributions.  A run starts with the update     *)
(* requests of one distribution waiting at the server: a for the first     *)
(* backend and b for each of the two others.  The server answers them,     *)
(* and then /stats queries.                                                *)

ScoreFills == { <<a, b, b>> : a \in 0..MaxShare, b \in 0..MaxOther }

InitScore ==
    /\ algorithm = "round_robin"
    /\ HAS_URLLIB = TRUE
    /\ EngineStart
    /\ \E p \in ScoreFills : StartsFilled(p)

NextScore ==
    \/ ServeQueued
    \/ GetStats

SpecScore == InitScore /\ [][NextScore]_vars

---------------------------------------------------------------------------
(* The controller and the API server together.  _send_to_dashboard posts   *)
(* the notification of a forward event to API_SERVER/update; the request   *)
(* waits in pending until the server answers it.  urlopen returns once the *)
(* answer is there, gives up after its timeout while the request may still *)
(* be answered later, or fails at once when the connection is refused and  *)
(* the request never reaches the server.                                   *)

\* the payload with the addresses exchanged
NotifyBodySwapped(data) ==
    [keys |-> {"client_ip", "server_ip", "timestamp"},
     server_ip |-> data.client_ip,
     response_time |-> 0,
     client_ip |-> data.server_ip]

\* json.dumps of the dictionary _handle_request builds, as json.loads gives
\* it back in do_POST: strings stay what they are; the timestamp key is
\* there and nothing reads it
NotifyBody(data) ==
    [keys |-> {"client_ip", "server_ip", "timestamp"},
     server_ip |-> data.server_ip,
     response_time |-> 0,
     client_ip |-> data.client_ip]

\* the request of the notification under way
Notification ==
    [id |-> stats.total_requests, caller |-> "controller",
     req |-> [method |-> "POST", path |-> "/update", data |-> NotifyBody(dashboard.data)]]

\* the packets of the runs: a client's request to the virtual address, its
\* ARP query for it, and a backend's answer
E2EEvents ==
    { ev \in Events :
        /\ ev.parsed
        /\ \/ ev.type = "IP" /\ ev.port = 4 /\ ev.dstip = VIRTUAL_IP
           \/ ev.type = "ARP" /\ ev.port = 4 /\ ev.opcode = "REQUEST" /\ ev.dstip = VIRTUAL_IP
           \/ ev.type = "IP" /\ ev.port = 1 /\ ev.dstip # VIRTUAL_IP }

\* _handle_PacketIn; a forward event sends its notification
E2EPacket(ev) ==
    /\ PacketIn(ev)
    /\ pending' = IF pc' = "notifying"
                  THEN pending \cup
                         {[id |-> stats'.total_requests, caller |-> "controller",
                           req |-> [method |-> "POST", path |-> "/update",
                                    data |-> NotifyBody(dashboard'.data)]]}
                  ELSE pending
    /\ UNCHANGED <<stats_data, now, http, updates, handlers, engines>>

\* urlopen returns with the server's answer
E2EAnswered ==
    /\ Notification \notin pending
    /\ DashboardReturn("ok")
    /\ UNCHANGED <<svars, engines>>

\* urlopen gives up after a second; the request stays where it is
E2ETimeout ==
    /\ DashboardReturn("timeout")
    /\ UNCHANGED <<svars, engines>>

\* urlopen reports an error although the request is on its way
E2ERefusedButQueued ==
    /\ Notification \in pending
    /\ DashboardReturn("error")
    /\ UNCHANGED <<svars, engines>>

\* the connection is refused: the request is lost
E2ERefused ==
    /\ Notification \in pending
    /\ DashboardReturn("error")
    /\ pending' = pending \ {Notification}
    /\ UNCHANGED <<stats_data, now, http, updates, handlers, engines>>

InitE2E ==
    /\ algorithm = "round_robin"
    /\ HAS_URLLIB = TRUE
    /\ EngineStart
    /\ ServiceStart

NextE2E ==
    \/ \E ev \in E2EEvents : E2EPacket(ev)
    \/ ServeQueued
    \/ E2EAnswered
    \/ E2ETimeout
    \/ E2ERefused

SpecE2E == InitE2E /\ [][NextE2E]_vars

---------------------------------------------------------------------------
(* The controller and the API server with their observers: the Timer that  *)
(* fires _report_stats and a dashboard that queries /stats.  The packets   *)
(* are requests of one client; every notification is answered.             *)

ObservedEvents == { ev \in E2EEvents : ev.type = "IP" /\ ev.port = 4 }

InitObserved ==
    /\ algorithm = "least_connections"
    /\ HAS_URLLIB = TRUE
    /\ EngineStart
    /\ ServiceStart

NextObserved ==
    \/ \E ev \in ObservedEvents : E2EPacket(ev)
    \/ ServeQueued
    \/ E2EAnswered
    \/ ReportStats /\ UNCHANGED <<svars, engines>>
    \/ GetStats

SpecObserved == InitObserved /\ [][NextObserved]_vars

---------------------------------------------------------------------------
(* The controller and the API server with an operator who resets the       *)
(* statistics of the API server between requests.  The packets are         *)
(* requests of one client; every notification is answered.                 *)

InitOperated ==
    /\ algorithm = "round_robin"
    /\ HAS_URLLIB = TRUE
    /\ EngineStart
    /\ ServiceStart

NextOperated ==
    \/ \E ev \in ObservedEvents : E2EPacket(ev)
    \/ ServeQueued
    \/ E2EAnswered
    \/ ReportStats /\ UNCHANGED <<svars, engines>>
    \/ PostReset

SpecOperated == InitOperated /\ [][NextOperated]_vars

---------------------------------------------------------------------------
(* Several switches.  launch registers start_switch for ConnectionUp, and  *)
(* start_switch builds a LoadBalancer for the connection of the event:     *)
(* engines maps each connection that is up to the cursor, the counters     *)
(* and the selections of its instance.  All instances run on the one       *)
(* control thread (pc) and post to the same API server; every notification *)
(* is answered.                                                            *)

Connections == {"s1", "s2"}

\* what __init__ sets on a new instance
NewEngine ==
    [server_index |-> 0,
     stats |-> [total_requests |-> 0,
                servers |-> [k \in ServerKeys |-> [requests |-> 0, load |-> 0]],
                start_time |-> 0],
     selected |-> << >>]

\* _handle_request on instance e: the selection and the two increments
EngineForward(e, alg) ==
    LET r == GetNextServer(alg, e.server_index, e.stats)
    IN  [server_index |-> r.server_index,
         stats |-> CountRequest(e.stats, IpStr(SERVERS[r.server].ip)),
         selected |-> Append(e.selected,
                             [index |-> e.server_index, server |-> r.server])]

\* start_switch: the connection gets an instance of its own
ConnectionUp(c) ==
    /\ pc = "idle"
    /\ c \notin DOMAIN engines
    /\ engines' = [x \in DOMAIN engines \cup {c} |->
                      IF x = c THEN NewEngine ELSE engines[x]]
    /\ UNCHANGED <<algorithm, HAS_URLLIB, server_index, stats, pc, dashboard,
                   connection_sent, last, selected, report, svars>>

\* the packets of these runs: requests of two clients to the virtual address
SwitchEvents ==
    { ev \in Events : ev.parsed /\ ev.type = "IP" /\ ev.dstip = VIRTUAL_IP
                        /\ ev.port \in {4, 5} }

\* the cursor is kept once for all instances
SwitchForwardSharedCursor(c, ev) ==
    /\ pc = "idle"
    /\ c \in DOMAIN engines
    /\ engines[c].stats.total_requests < MaxPerSwitch
    /\ LET e == EngineForward(engines[c], algorithm)
       IN engines' = [x \in DOMAIN engines |->
                        IF x = c THEN e
                        ELSE [engines[x] EXCEPT !.server_index = e.server_index]]
    /\ pc' = "notifying"
    /\ pending' = pending \cup
          {[id |-> Cardinality(pending) + now, caller |-> c,
            req |-> [method |-> "POST", path |-> "/update",
                     data |-> NotifyBody(
                        [client_ip |-> IpStr(ev.srcip),
                         server_ip |-> IpStr(SERVERS[
                            GetNextServer(algorithm, engines[c].server_index,
                                          engines[c].stats).server].ip)])]]}
    /\ UNCHANGED <<algorithm, HAS_URLLIB, server_index, stats, dashboard,
                   connection_sent, last, selected, report,
                   stats_data, now, http, updates, handlers>>

\* _handle_PacketIn of the instance of connection c, for a forward event:
\* the instance selects and counts, and posts its notification
SwitchForward(c, ev) ==
    /\ pc = "idle"
    /\ c \in DOMAIN engines
    /\ engines[c].stats.total_requests < MaxPerSwitch
    /\ engines' = [engines EXCEPT ![c] = EngineForward(@, algorithm)]
    /\ pc' = "notifying"
    /\ pending' = pending \cup
          {[id |-> Cardinality(pending) + now, caller |-> c,
            req |-> [method |-> "POST", path |-> "/update",
                     data |-> NotifyBody(
                        [client_ip |-> IpStr(ev.srcip),
                         server_ip |-> IpStr(SERVERS[
                            GetNextServer(algorithm, engines[c].server_index,
                                          engines[c].stats).server].ip)])]]}
    /\ UNCHANGED <<algorithm, HAS_URLLIB, server_index, stats, dashboard,
                   connection_sent, last, selected, report,
                   stats_data, now, http, updates, handlers>>

\* urlopen returns with the server's answer and the instance goes on
SwitchAnswered ==
    /\ pc = "notifying"
    /\ pending = {}
    /\ pc' = "idle"
    /\ UNCHANGED <<algorithm, HAS_URLLIB, server_index, stats, dashboard,
                   connection_sent, last, selected, report, engines, svars>>

InitSwitches ==
    /\ algorithm \in {"round_robin", "least_connections"}
    /\ HAS_URLLIB = TRUE
    /\ EngineStart
    /\ ServiceStart

NextSwitches ==
    \/ \E c \in Connections : ConnectionUp(c)
    \/ \E c \in Connections : \E ev \in SwitchEvents : SwitchForward(c, ev)
    \/ ServeQueued
    \/ SwitchAnswered

SpecSwitches == InitSwitches /\ [][NextSwitches]_vars

---------------------------------------------------------------------------
(* The API server under concurrent callers.  Callers send requests at any  *)
(* time; a request waits in pending until the server accepts it.           *)
(* run_server builds a plain HTTPServer, whose serve_forever loop runs one *)
(* handler to its end before it accepts the next request.  To show what    *)
(* that buys, a handler is taken apart here into the steps another thread  *)
(* could come between: the load and the store of                           *)
(* stats_data["total_requests"] += 1, and the rest of update_stats.        *)

Callers == {"dashboard", "controller"}

\* what a caller may send: two update bodies, a reset, a stats query
ConcRequests ==
    { [method |-> "POST", path |-> "/update", data |-> d] :
          d \in { x \in ApiPayloads :
                    /\ x.keys = {"server_ip", "client_ip"}
                    /\ x.server_ip \in {"10.0.0.1", "10.0.0.9"} } }
    \cup { [method |-> "POST", path |-> "/reset", data |-> EmptyObject],
           [method |-> "GET", path |-> "/stats", data |-> EmptyObject] }

\* requests sent so far: every accepted request read the clock once
SentSoFar == Cardinality(pending) + (now - 1)

\* a caller sends a request
Send(c, req) ==
    /\ SentSoFar < MaxSent
    /\ pending' = pending \cup {[id |-> SentSoFar + 1, caller |-> c, req |-> req]}
    /\ UNCHANGED <<evars, stats_data, now, http, updates, handlers>>

\* a ThreadingHTTPServer would accept while handlers are running
CanAcceptThreaded == TRUE

\* HTTPServer.serve_forever: the next request is accepted only after the
\* handler of the previous one has returned
CanAccept == handlers = {}

\* the server accepts a pending request and its handler starts
Accept(r) ==
    /\ r \in pending
    /\ CanAccept
    /\ pending' = pending \ {r}
    /\ handlers' = handlers \cup
          {[id |-> r.id, caller |-> r.caller, req |-> r.req,
            pc |-> "start", loaded |-> 0, t |-> now]}
    /\ now' = now + 1
    /\ UNCHANGED <<evars, stats_data, http, updates>>

\* update_stats line 122, first half: the handler reads total_requests
LoadTotal(hd) ==
    /\ hd \in handlers
    /\ hd.req.path = "/update"
    /\ hd.pc = "start"
    /\ handlers' = (handlers \ {hd})
          \cup {[hd EXCEPT !.pc = "loaded", !.loaded = stats_data.total_requests]}
    /\ UNCHANGED <<evars, stats_data, now, http, updates, pending>>

\* update_stats line 122, second half: the handler writes the sum back
StoreTotal(hd) ==
    /\ hd \in handlers
    /\ hd.pc = "loaded"
    /\ stats_data' = [stats_data EXCEPT !.total_requests = hd.loaded + 1]
    /\ handlers' = (handlers \ {hd}) \cup {[hd EXCEPT !.pc = "counted"]}
    /\ UNCHANGED <<evars, now, http, updates, pending>>

\* update_stats lines 124-137 and the 200 answer of do_POST
FinishUpdate(hd, h) ==
    /\ hd \in handlers
    /\ hd.pc = "counted"
    /\ stats_data' = UpdateRest(stats_data, hd.req.data, h, hd.t)
    /\ updates' = Append(updates, [data |-> hd.req.data, h |-> h, t |-> hd.t])
    /\ http' = [method |-> "POST", path |-> "/update", status |-> 200,
                body |-> [status |-> "ok"]]
    /\ handlers' = handlers \ {hd}
    /\ UNCHANGED <<evars, now, pending>>

\* the handler of a /reset request
ServeReset(hd) ==
    /\ hd \in handlers
    /\ hd.req.path = "/reset"
    /\ stats_data' = ResetStats(stats_data, hd.t)
    /\ updates' = << >>
    /\ http' = [method |-> "POST", path |-> "/reset", status |-> 200,
                body |-> [status |-> "reset"]]
    /\ handlers' = handlers \ {hd}
    /\ UNCHANGED <<evars, now, pending>>

\* the handler of a /stats request
ServeStats(hd) ==
    /\ hd \in handlers
    /\ hd.req.path = "/stats"
    /\ http' = [method |-> "GET", path |-> "/stats", status |-> 200,
                body |-> CalculateStats(stats_data)]
    /\ handlers' = handlers \ {hd}
    /\ UNCHANGED <<evars, stats_data, now, updates, pending>>

InitConc ==
    /\ algorithm = "round_robin"
    /\ HAS_URLLIB = TRUE
    /\ EngineStart
    /\ ServiceStart

NextConc ==
    \/ \E c \in Callers : \E req \in ConcRequests : Send(c, req)
    \/ \E r \in pending : Accept(r)
    \/ \E hd \in handlers : LoadTotal(hd)
    \/ \E hd \in handlers : StoreTotal(hd)
    \/ \E hd \in handlers : \E h \in HashChoices(hd.req.data) : FinishUpdate(hd, h)
    \/ \E hd \in handlers : ServeReset(hd)
    \/ \E hd \in handlers : ServeStats(hd)

SpecConc == InitConc /\ [][NextConc]_vars

---------------------------------------------------------------------------
(* Properties *)

\* the server returned by the n-th call of _get_next_server
Sel(n) == selected[n].server

\* sum of the per-backend request counts of a stats dictionary
RECURSIVE SumRequests(_, _)
SumRequests(st, i) ==
    IF i = 0 THEN 0 ELSE Requests(st, i) + SumRequests(st, i - 1)

\* a forward event was handled in this step: _get_next_server was called
Selects == Len(selected') = Len(selected) + 1

\* C1: under round_robin, any N consecutive selections (N = number of
\* backends), from whatever cursor value they start at, return every backend
\* exactly once, in table order taken cyclically from the cursor, and the N
\* selections after them return the same sequence.
C1_RoundRobinCycle ==
    algorithm = "round_robin" =>
        /\ \A i \in 0..(Len(selected) - NServers) :
              /\ \A k \in 1..NServers :
                    Sel(i + k) = ((selected[i + 1].index + k - 1) % NServers) + 1
              /\ \A b \in 1..NServers :
                    Cardinality({ k \in 1..NServers : Sel(i + k) = b }) = 1
        /\ \A i \in 0..(Len(selected) - 2 * NServers) :
              \A k \in 1..NServers : Sel(i + NServers + k) = Sel(i + k)

\* two full rounds were selected, the first starting at a cursor other than 0
C1_Witness ==
    /\ algorithm = "round_robin"
    /\ Len(selected) = 2 * NServers + 2
    /\ selected[3].index = 2

\* the server a selection made now would return
NextSelection == GetNextServer(algorithm, server_index, stats).server

\* b has the smallest request count of st, and is the first in the table to
\* have it
FirstLeast(st, b) ==
    /\ \A j \in 1..NServers : Requests(st, b) <= Requests(st, j)
    /\ \A j \in 1..(b - 1) : Requests(st, j) > Requests(st, b)

\* C2: under least_connections, after any sequence of handled forward events
\* the next selection returns a backend whose request count is <= every
\* other backend's, the smallest-indexed one among those that share the
\* minimum; and every selection actually made returned such a backend for
\* the counts it was made on.
C2_LeastConnections ==
    /\ [](algorithm = "least_connections" => FirstLeast(stats, NextSelection))
    /\ [][(algorithm = "least_connections" /\ Selects)
            => FirstLeast(stats, selected'[Len(selected')].server)]_vars

\* least_connections has just chosen the third backend while the first two
\* tie above it, after one full round
C2_Witness ==
    /\ algorithm = "least_connections"
    /\ Len(selected) = 6
    /\ Sel(6) = 3
    /\ Requests(stats, 1) = 2 /\ Requests(stats, 2) = 2 /\ Requests(stats, 3) = 2
    /\ NextSelection = 1

\* C3: in every reachable state, whatever the policy and the events and
\* ticks so far, total_requests equals the sum of the per-backend counts.
C3_TotalIsSum ==
    stats.total_requests = SumRequests(stats, NServers)

\* requests were counted, then other events and a tick were handled
C3_Witness ==
    /\ stats.total_requests = 4
    /\ last.step = "tick"
    /\ report.total_requests = 4

\* the policies that use the cursor: round_robin and any unrecognised name
UsesCursor == algorithm # "least_connections"

\* C4: under round-robin (the fallback for an unknown policy name included)
\* the cursor is in [0, N) in every reachable state, a handled forward event
\* advances it by exactly one modulo N, whatever becomes of the dashboard
\* notification, and no other step (ARP, reverse, ignored, tick, the return
\* of the notification) changes it.
C4_Cursor ==
    /\ [](UsesCursor => server_index \in 0..(NServers - 1))
    /\ [][UsesCursor =>
            IF Selects
            THEN server_index' = (server_index + 1) % NServers
            ELSE server_index' = server_index]_vars

\* the fallback policy wrapped the cursor around after a failed notification
C4_Witness ==
    /\ algorithm = "weighted"
    /\ Len(selected) = NServers
    /\ server_index = 0
    /\ dashboard.state = "error"

\* the event last dispatched is an IP packet for the virtual address
IsForward(ev) == ev.parsed /\ ev.type = "IP" /\ ev.dstip = VIRTUAL_IP

\* the handling of a forward event has just run to its end
ForwardDone ==
    \/ last.step = "return"
    \/ last.step = "packet" /\ IsForward(last.event) /\ pc = "idle"

\* the backend returned by the latest selection
LastSelected == SERVERS[Sel(Len(selected))]

\* C5: the forward FlowIntent of a handled forward event has priority 100,
\* idle timeout 10, hard timeout 30 and the actions, in this order, set
\* destination link identity, set destination address, output to egress
\* port, all of the backend the selection for this event returned; and that
\* backend is the one whose request counter the event incremented.
C5_ForwardIntent ==
    /\ [](ForwardDone =>
            /\ Len(connection_sent) = 1
            /\ connection_sent[1].msg = "flow_mod"
            /\ connection_sent[1].priority = 100
            /\ connection_sent[1].idle_timeout = 10
            /\ connection_sent[1].hard_timeout = 30
            /\ connection_sent[1].actions =
                  << [type |-> "set_dl_dst", dl_addr |-> LastSelected.mac],
                     [type |-> "set_nw_dst", nw_addr |-> LastSelected.ip],
                     [type |-> "output", port |-> LastSelected.port] >>)
    /\ [][Selects =>
            \A i \in 1..NServers :
                Requests(stats', i) =
                    IF i = selected'[Len(selected')].server
                    THEN Requests(stats, i) + 1
                    ELSE Requests(stats, i)]_vars

\* a forward rule towards the second backend was installed after the
\* notification returned
C5_Witness ==
    /\ last.step = "return"
    /\ Len(connection_sent) = 1
    /\ Sel(Len(selected)) = 2
    /\ connection_sent[1].actions[3].port = 2

\* an IP packet whose destination is not the virtual address
IsNotForVip(ev) == ev.parsed /\ ev.type = "IP" /\ ev.dstip # VIRTUAL_IP

\* the source address of ev is a configured backend address
FromBackend(ev) == \E i \in 1..NServers : ev.srcip = SERVERS[i].ip

\* C6: for an IP packet whose destination is not the virtual address: a
\* source that is a configured backend address gets exactly one reverse
\* FlowIntent with the actions, in order, set source address to the virtual
\* address, set source link identity to the virtual identity, output to
\* flood; any other source gets no intent.  Either way no counter and no
\* selection state changes.
C6_Reverse ==
    /\ []((last.step = "packet" /\ IsNotForVip(last.event)) =>
            IF FromBackend(last.event)
            THEN /\ Len(connection_sent) = 1
                 /\ connection_sent[1].msg = "flow_mod"
                 /\ connection_sent[1].actions =
                       << [type |-> "set_nw_src", nw_addr |-> VIRTUAL_IP],
                          [type |-> "set_dl_src", dl_addr |-> VIRTUAL_MAC],
                          [type |-> "output", port |-> OFPP_FLOOD] >>
            ELSE connection_sent = << >>)
    /\ [][(last'.step = "packet" /\ IsNotForVip(last'.event)) =>
            UNCHANGED <<stats, server_index, selected>>]_vars

\* a packet from backend 10.0.0.2 got its reverse rule after requests were
\* counted
C6_Witness ==
    /\ last.step = "packet"
    /\ IsNotForVip(last.event)
    /\ last.event.srcip = SERVERS[2].ip
    /\ Len(connection_sent) = 1
    /\ stats.total_requests = 2

\* an address-resolution query
IsArpQuery(ev) == ev.parsed /\ ev.type = "ARP" /\ ev.opcode = "REQUEST"

\* C7: an address-resolution query for the virtual address gets exactly one
\* reply, which binds the virtual address to the virtual link identity, is
\* addressed to the querier's link identity and address and goes out on the
\* port the query came in on; a query for any other address gets no reply.
\* Neither changes the counters or the cursor.
C7_ArpReply ==
    /\ []((last.step = "packet" /\ IsArpQuery(last.event)) =>
            IF last.event.dstip = VIRTUAL_IP
            THEN /\ Len(connection_sent) = 1
                 /\ connection_sent[1].msg = "packet_out"
                 /\ connection_sent[1].data.type = "ARP"
                 /\ connection_sent[1].data.src = VIRTUAL_MAC
                 /\ connection_sent[1].data.dst = last.event.src
                 /\ connection_sent[1].data.payload =
                       [opcode |-> "REPLY",
                        hwsrc |-> VIRTUAL_MAC, protosrc |-> VIRTUAL_IP,
                        hwdst |-> last.event.src, protodst |-> last.event.srcip]
                 /\ connection_sent[1].actions =
                       << [type |-> "output", port |-> last.event.port] >>
            ELSE connection_sent = << >>)
    /\ [][(last'.step = "packet" /\ IsArpQuery(last'.event)) =>
            UNCHANGED <<stats, server_index>>]_vars

\* a client on port 4 asked for the virtual address and was answered
C7_Witness ==
    /\ last.step = "packet"
    /\ IsArpQuery(last.event)
    /\ last.event.dstip = VIRTUAL_IP
    /\ last.event.port = 4
    /\ Len(connection_sent) = 1
    /\ stats.total_requests = 1

\* C8: a packet event makes the engine send at most one message (FlowIntent
\* or address reply), and the engine's counters change only in the handling
\* of an event whose destination is the virtual address.
C8_OneMessage ==
    /\ [](Len(connection_sent) <= 1)
    /\ [][stats' # stats => (last'.step = "packet" /\ IsForward(last'.event))]_vars

\* an event sent its one message while counters are nonzero
C8_Witness ==
    /\ last.step = "packet"
    /\ Len(connection_sent) = 1
    /\ connection_sent[1].msg = "packet_out"
    /\ stats.total_requests = 3

\* C9: a failed or timed-out dashboard notification is swallowed: the
\* forward FlowIntent of the event is still sent, counters and cursor are
\* left exactly as a successful notification leaves them (untouched by the
\* return), the notification was attempted once only, and the engine is
\* back to handling events.
C9_NotifyFailureSwallowed ==
    /\ [](last.step = "return" =>
            /\ pc = "idle"
            /\ dashboard.state \in Outcomes
            /\ dashboard.attempts = 1
            /\ connection_sent = << ForwardFlow(last.event, LastSelected) >>)
    /\ [][last'.step = "return" => UNCHANGED <<stats, server_index, selected>>]_vars
    /\ [](dashboard.state \in {"error", "timeout"} => (pc = "idle" /\ dashboard.attempts = 1))

\* the notification of the second forward event timed out
C9_Witness ==
    /\ last.step = "return"
    /\ dashboard.state = "timeout"
    /\ stats.total_requests = 2
    /\ Len(connection_sent) = 1

\* C10: the forward FlowIntent of an event does not wait for the event's
\* notification: whenever the notification is still outstanding, the intent
\* has already been sent.
C10_IntentBeforeNotifyEnds ==
    dashboard.state = "pending" =>
        connection_sent = << ForwardFlow(last.event, LastSelected) >>

---------------------------------------------------------------------------
(* Properties of the API server *)

\* stats_data after the updates u[1..j] applied one at a time to an empty store
RECURSIVE Replay(_, _)
Replay(u, j) ==
    IF j = 0 THEN StatsDataStart
    ELSE UpdateStats(Replay(u, j - 1), u[j].data, u[j].h, u[j].t)

\* the entries of a recent-requests list that name server k
Naming(recent, k) == { i \in 1..Len(recent) : recent[i].server = k }

\* C11: however the /update, /reset and /stats requests of several callers
\* interleave, once the handlers have returned the store is the one that
\* the updates answered since the last reset give when they are applied one
\* at a time, in the order they were answered: no increment is lost
\* (total_requests is their number, the per-backend counts are the numbers
\* of those naming each backend); and no /stats answer shows an update
\* applied in part: its total_requests and per-backend counts agree with
\* its recent_requests.
C11_Serialized ==
    /\ handlers = {} =>
          /\ [stats_data EXCEPT !.start_time = 0] = Replay(updates, Len(updates))
          /\ stats_data.total_requests = Len(updates)
          /\ \A k \in ApiServerKeys :
                stats_data.servers[k].requests =
                    Cardinality({ j \in 1..Len(updates) :
                                    DataGet(updates[j].data, "server_ip", "None") = k })
    /\ (http.path = "/stats" /\ http.status = 200) =>
          /\ http.body.total_requests = Len(http.body.recent_requests)
          /\ \A k \in ApiServerKeys :
                http.body.servers[k].requests =
                    Cardinality(Naming(http.body.recent_requests, k))

\* two updates and then a /stats query, sent by callers that do not wait
\* for one another, have all been answered
C11_Witness ==
    /\ handlers = {}
    /\ pending = {}
    /\ Len(updates) = 2
    /\ stats_data.total_requests = 2
    /\ http.path = "/stats"
    /\ http.body.total_requests = 2

\* the step is an update_stats call: the history grows by its input
IsUpdate == Len(updates') = Len(updates) + 1

\* the input of the update the step performs
UpdateInput == updates'[Len(updates')]

\* the sample update_stats appends for input u
Sample(u) == DataGet(u.data, "response_time", Synth(u.h))

\* the log entry update_stats inserts for input u
Entry(u) ==
    [timestamp |-> u.t,
     client |-> DataGet(u.data, "client_ip", "unknown"),
     server |-> DataGet(u.data, "server_ip", "None")]

\* C12: every response_times window and the recent_requests log hold at
\* most 50 entries at all times; an update that finds a window full
\* discards its oldest entry (the first sample of a response_times window,
\* the last entry of recent_requests), stores the new one, and is answered
\* with status 200.
C12_WindowsBounded ==
    /\ [](/\ Len(stats_data.recent_requests) <= DequeMaxLen
          /\ \A k \in ApiServerKeys :
                Len(stats_data.servers[k].response_times) <= DequeMaxLen)
    /\ [][IsUpdate =>
            /\ http'.status = 200
            /\ Len(stats_data.recent_requests) = DequeMaxLen =>
                  /\ Len(stats_data'.recent_requests) = DequeMaxLen
                  /\ stats_data'.recent_requests[1] = Entry(UpdateInput)
                  /\ \A i \in 1..(DequeMaxLen - 1) :
                        stats_data'.recent_requests[i + 1] = stats_data.recent_requests[i]
            /\ \A k \in ApiServerKeys :
                  (/\ Len(stats_data.servers[k].response_times) = DequeMaxLen
                   /\ DataGet(UpdateInput.data, "server_ip", "None") = k) =>
                     LET w == stats_data.servers[k].response_times
                         w2 == stats_data'.servers[k].response_times
                     IN /\ Len(w2) = DequeMaxLen
                        /\ w2[DequeMaxLen] = Sample(UpdateInput)
                        /\ \A i \in 1..(DequeMaxLen - 1) : w2[i] = w[i + 1]
       ]_vars

\* the 51st update since the start has just been answered: the log and the
\* first backend's window, full before it, are full after it
C12_Witness ==
    /\ Len(updates) = DequeMaxLen + 1
    /\ Len(stats_data.recent_requests) = DequeMaxLen
    /\ Len(stats_data.servers["10.0.0.1"].response_times) = DequeMaxLen
    /\ stats_data.servers["10.0.0.1"].requests = DequeMaxLen + 1
    /\ http.path = "/update"
    /\ http.status = 200

\* the smaller of two numbers
Min(a, b) == IF a < b THEN a ELSE b

\* C13: after k updates since the last reset (or since start),
\* recent_requests has length min(k, 50) and is ordered newest first: its
\* element i, counted from 0, is the entry of the (k - i)-th update.
C13_RecentNewestFirst ==
    LET k == Len(updates)
    IN handlers = {} =>
          /\ Len(stats_data.recent_requests) = Min(k, DequeMaxLen)
          /\ \A i \in 0..(Min(k, DequeMaxLen) - 1) :
                stats_data.recent_requests[i + 1] = Entry(updates[k - i])

\* 55 updates have been answered since the start: the log holds 50 entries,
\* the 55th update first and the 6th last
C13_Witness ==
    /\ Len(updates) = 55
    /\ Len(stats_data.recent_requests) = 50
    /\ stats_data.recent_requests[1] = Entry(updates[55])
    /\ stats_data.recent_requests[50] = Entry(updates[6])
    /\ updates[55].t = 3

\* the updates since the last reset that named backend b, as positions in
\* the history
Naming_b(b) ==
    { j \in 1..Len(updates) : DataGet(updates[j].data, "server_ip", "None") = b }

\* C14: a backend's response_times holds exactly the last min(k, 50) of the
\* k samples appended to it since the last reset, in the order they were
\* appended.
C14_WindowLastSamples ==
    handlers = {} =>
       \A b \in ApiServerKeys :
          LET js == Naming_b(b)
              k == Cardinality(js)
              w == stats_data.servers[b].response_times
              \* the sample of position j is the Rank(j)-th appended to b
              Rank(j) == Cardinality({ i \in js : i <= j })
          IN /\ Len(w) = Min(k, DequeMaxLen)
             /\ \A j \in js :
                   Rank(j) > k - Len(w) =>
                      w[Rank(j) - (k - Len(w))] = Sample(updates[j])

\* 60 samples have been appended to the first backend, the last of them
\* synthesised for want of a response_time: the window holds the 11th to
\* the 60th of them
C14_Witness ==
    /\ Cardinality(Naming_b("10.0.0.1")) = 60
    /\ Len(stats_data.servers["10.0.0.1"].response_times) = 50
    /\ stats_data.servers["10.0.0.1"].response_times[1] = Sample(updates[11])
    /\ stats_data.servers["10.0.0.1"].response_times[50] = Sample(updates[60])
    /\ "response_time" \notin updates[60].data.keys
    /\ Sample(updates[60]) = 99

\* the store holds nothing: every counter is zero, every window is empty
StoreCleared(sd) ==
    /\ sd.total_requests = 0
    /\ sd.recent_requests = << >>
    /\ \A k \in ApiServerKeys :
          /\ sd.servers[k].requests = 0
          /\ sd.servers[k].response_times = << >>

\* the step answers a /reset request
IsReset == http'.path = "/reset" /\ now' = now + 1

\* the step answers a /stats request
IsSnapshot == http'.path = "/stats" /\ http'.status = 200

\* C15: whatever updates came before, a reset leaves total_requests 0,
\* every backend with requests 0 and no response times, and recent_requests
\* empty; a snapshot that follows it reports total_requests 0,
\* balance_score 100 and an empty recent_requests.
C15_ResetClears ==
    /\ [][IsReset => StoreCleared(stats_data')]_vars
    /\ [][(http.path = "/reset" /\ IsSnapshot) =>
             /\ http'.body.total_requests = 0
             /\ http'.body.balance_score = [num |-> 100, den |-> 1]
             /\ http'.body.recent_requests = << >>
             /\ \A k \in ApiServerKeys : http'.body.servers[k].requests = 0
         ]_vars

\* an update, then a reset, then a snapshot that reports the cleared store
C15_Witness ==
    /\ stats_data.start_time = 2
    /\ now = 4
    /\ http.path = "/stats"
    /\ http.body.total_requests = 0
    /\ http.body.balance_score = [num |-> 100, den |-> 1]
    /\ http.body.recent_requests = << >>
    /\ StoreCleared(stats_data)

\* the score a snapshot of the store would report
Score == CalculateStats(stats_data).balance_score

\* C16: in every reachable state of the store the balance score a snapshot
\* computes lies between 0 and 100, and it is 100 when total_requests is 0.
C16_ScoreRange ==
    /\ Score.den > 0
    /\ 0 <= Score.num
    /\ Score.num <= 100 * Score.den
    /\ stats_data.total_requests = 0 => Score.num = 100 * Score.den
    /\ (http.path = "/stats" /\ http.status = 200) =>
          /\ http.body.balance_score.den > 0
          /\ 0 <= http.body.balance_score.num
          /\ http.body.balance_score.num <= 100 * http.body.balance_score.den
          /\ http.body.total_requests = 0 =>
                http.body.balance_score.num = 100 * http.body.balance_score.den

\* a snapshot of a store where one backend took all of 50 requests: the
\* score sits at the lower end of the range
C16_Witness ==
    /\ http.path = "/stats"
    /\ http.body.total_requests = 50
    /\ http.body.servers["10.0.0.1"].requests = 50
    /\ http.body.balance_score.num = 0
    /\ Score.num = 0

\* fractions with positive denominators, compared
FracLess(x, y) == x.num * y.den < y.num * x.den
FracLeq(x, y) == x.num * y.den <= y.num * x.den

\* the distance of count a from a third of total T, times 3
Deviation(a, T) == IF 3 * a >= T THEN 3 * a - T ELSE T - 3 * a

\* the store with the same total spread anew: a for backend k, the rest
\* split evenly among the others
Redistribute(sd, k, a) ==
    [sd EXCEPT !.servers =
        [x \in DOMAIN sd.servers |->
            [sd.servers[x] EXCEPT !.requests =
                IF x = k THEN a ELSE (sd.total_requests - a) \div 2]]]

\* the backends whose share can be the one that varies in snapshot body b:
\* the two others have equal counts and the total is spread over the three
Varying(b) ==
    { k \in ApiServerKeys :
        /\ \A x, y \in ApiServerKeys \ {k} : b.servers[x].requests = b.servers[y].requests
        /\ b.total_requests =
              b.servers["10.0.0.1"].requests + b.servers["10.0.0.2"].requests
                 + b.servers["10.0.0.3"].requests }

\* the counts backend k can have in another distribution of the total of
\* body b that leaves it farther from a third
Farther(b, k) ==
    { a \in 0..b.total_requests :
        /\ (b.total_requests - a) % 2 = 0
        /\ Deviation(a, b.total_requests) > Deviation(b.servers[k].requests, b.total_requests) }

\* C17 as stated: of two distributions of a total T > 0, the one whose
\* varying backend is farther from T/3 has the strictly smaller score.
C17_StrictlyDecreasing ==
    (http.path = "/stats" /\ http.status = 200 /\ http.body.total_requests > 0) =>
       \A k \in Varying(http.body) : \A a \in Farther(http.body, k) :
          FracLess(BalanceScore(Redistribute(stats_data, k, a)), http.body.balance_score)

\* C17: of two distributions of a total T > 0, the one whose varying backend
\* is farther from T/3 never has the larger score, and has the strictly
\* smaller score whenever the score of the other is above 0; a score
\* that max(0, ...) has brought to 0 stays 0 for every distribution farther
\* out.
C17_DecreasingDownToZero ==
    (http.path = "/stats" /\ http.status = 200 /\ http.body.total_requests > 0) =>
       \A k \in Varying(http.body) : \A a \in Farther(http.body, k) :
          LET second == BalanceScore(Redistribute(stats_data, k, a))
              first == http.body.balance_score
          IN /\ FracLeq(second, first)
             /\ first.num > 0 => FracLess(second, first)
             /\ first.num = 0 => second.num = 0

\* a snapshot of 10/10/10, to which 30/0/0 is compared
C17_Witness ==
    /\ http.path = "/stats"
    /\ http.body.total_requests = 30
    /\ \A k \in ApiServerKeys : http.body.servers[k].requests = 10
    /\ http.body.balance_score.num = 100 * http.body.balance_score.den
    /\ 30 \in Farther(http.body, "10.0.0.1")
    /\ BalanceScore(Redistribute(stats_data, "10.0.0.1", 30)).num = 0

\* the sum of the per-backend requests counters
KnownTotal(sd) ==
    sd.servers["10.0.0.1"].requests + sd.servers["10.0.0.2"].requests
       + sd.servers["10.0.0.3"].requests

\* the server address that input u names
Named(u) == DataGet(u.data, "server_ip", "None")

\* C19: an /update whose server_ip is not a configured backend address is
\* answered with 200, adds exactly 1 to total_requests and changes no
\* backend's requests counter or response_times window; so total_requests
\* is always at least the sum of the per-backend counters, and equal to it
\* exactly when every update since the last reset named a known backend.
C19_UnknownServerCounted ==
    /\ [][(IsUpdate /\ Named(UpdateInput) \notin ApiServerKeys) =>
             /\ http'.path = "/update"
             /\ http'.status = 200
             /\ stats_data'.total_requests = stats_data.total_requests + 1
             /\ stats_data'.servers = stats_data.servers
         ]_vars
    /\ [](handlers = {} =>
             /\ stats_data.total_requests >= KnownTotal(stats_data)
             /\ stats_data.total_requests = KnownTotal(stats_data)
                   <=> \A j \in 1..Len(updates) : Named(updates[j]) \in ApiServerKeys)

\* an update for a known backend and then one for 10.0.0.9 have been
\* answered: the total is one ahead of the backends' sum
C19_Witness ==
    /\ Len(updates) = 2
    /\ Named(updates[1]) = "10.0.0.1"
    /\ Named(updates[2]) = "10.0.0.9"
    /\ http.path = "/update"
    /\ http.status = 200
    /\ stats_data.total_requests = 2
    /\ KnownTotal(stats_data) = 1

\* C20: an /update naming a known backend adds exactly 1 to total_requests
\* and to that backend's requests, appends one sample to that backend's
\* response_times and one entry to recent_requests (a full window giving up
\* its oldest), and leaves every other backend's counter and window, and
\* start_time, unchanged.
C20_KnownServerFrame ==
    [][(IsUpdate /\ Named(UpdateInput) \in ApiServerKeys) =>
          LET k == Named(UpdateInput)
              w == stats_data.servers[k].response_times
              log == stats_data.recent_requests
          IN /\ stats_data'.total_requests = stats_data.total_requests + 1
             /\ stats_data'.servers[k].requests = stats_data.servers[k].requests + 1
             /\ stats_data'.servers[k].response_times =
                   (IF Len(w) < DequeMaxLen THEN w ELSE Tail(w))
                      \o << Sample(UpdateInput) >>
             /\ stats_data'.recent_requests =
                   << Entry(UpdateInput) >>
                      \o (IF Len(log) < DequeMaxLen THEN log
                          ELSE SubSeq(log, 1, DequeMaxLen - 1))
             /\ \A x \in ApiServerKeys \ {k} :
                   stats_data'.servers[x] = stats_data.servers[x]
             /\ stats_data'.start_time = stats_data.start_time
             /\ DOMAIN stats_data'.servers = ApiServerKeys
      ]_vars

\* an update for the second backend has just been answered by a store that
\* held 48 requests of the first
C20_Witness ==
    /\ Len(updates) = 49
    /\ Named(updates[49]) = "10.0.0.2"
    /\ http.path = "/update"
    /\ stats_data.total_requests = 49
    /\ stats_data.servers["10.0.0.2"].requests = 1
    /\ Len(stats_data.servers["10.0.0.2"].response_times) = 1
    /\ stats_data.servers["10.0.0.1"].requests = 48
    /\ stats_data.start_time = -47

\* C18: with three backends and round robin from the initial state, once
\* 3k forward events have been handled and the notification of every one
\* of them has been answered by a store that was fresh before the first,
\* every backend has exactly k requests in the store, total_requests is 3k
\* and the balance score is 100.
C18_EndToEnd ==
    (/\ pc = "idle"
     /\ pending = {}
     /\ stats.total_requests % 3 = 0
     /\ Len(updates) = stats.total_requests) =>
        LET k == stats.total_requests \div 3
        IN /\ stats_data.total_requests = 3 * k
           /\ \A b \in ApiServerKeys : stats_data.servers[b].requests = k
           /\ Score.num = 100 * Score.den
           /\ \A b \in ServerKeys : stats.servers[b].requests = k

\* nine forward events and their notifications are done: three requests
\* for each backend
C18_Witness ==
    /\ pc = "idle"
    /\ pending = {}
    /\ stats.total_requests = 9
    /\ Len(updates) = 9
    /\ stats_data.total_requests = 9
    /\ \A b \in ApiServerKeys : stats_data.servers[b].requests = 3
    /\ Score.num = 100 * Score.den

\* the positions in the history of the update the dashboard posted
Own == { j \in 1..Len(updates) : updates[j].data.client_ip = "10.0.0.10" }

\* the entries of a log
Entries(log) == { log[i] : i \in 1..Len(log) }

\* the step answers the /stats query of the dashboard
AnswersOwnQuery ==
    /\ pending # {}
    /\ Oldest(pending).caller = "dashboard"
    /\ Oldest(pending).req.path = "/stats"
    /\ IsSnapshot

\* C21 as stated: the snapshot the dashboard gets after the 200 of its
\* update counts the update and has its entry in recent_requests, whatever
\* other callers' updates and queries came in between, no reset among them.
C21_ReadYourUpdate ==
    [][AnswersOwnQuery =>
          \A j \in Own :
             /\ http'.body.total_requests >= j
             /\ Entry(updates[j]) \in Entries(http'.body.recent_requests)
      ]_vars

\* C21: the snapshot the dashboard gets after the 200 of its update counts
\* the update; the update's entry is in recent_requests, behind the entries
\* of the updates answered after it, when these are fewer than 50, and is
\* no longer there when they are 50 or more.
C21_ReadYourUpdateInWindow ==
    [][AnswersOwnQuery =>
          /\ Own # {}
          /\ \A j \in Own :
                LET later == Len(updates) - j
                IN /\ http'.body.total_requests = Len(updates)
                   /\ http'.body.total_requests >= j
                   /\ later < DequeMaxLen =>
                         /\ Len(http'.body.recent_requests) > later
                         /\ http'.body.recent_requests[later + 1] = Entry(updates[j])
                   /\ later >= DequeMaxLen =>
                         Entry(updates[j]) \notin Entries(http'.body.recent_requests)
      ]_vars

\* the dashboard's query is answered last, after its own update and 49
\* updates of the controller: the entry of its update is the last of 50
C21_Witness ==
    /\ pending = {}
    /\ http.path = "/stats"
    /\ Len(updates) = DequeMaxLen
    /\ Own = {1}
    /\ http.body.total_requests = DequeMaxLen
    /\ http.body.recent_requests[DequeMaxLen] = Entry(updates[1])

\* the step answers a /stats query: calculate_stats reads the clock
IsQuery == http'.path = "/stats" /\ http'.status = 200 /\ now' = now + 1

\* C22: a GET /stats leaves the whole store as it was, and a tick of the
\* controller's Timer (_report_stats) leaves the controller's counters,
\* start_time and cursor as they were and gives nothing to the connection
\* or to the API server.
C22_ReadOnly ==
    /\ [][IsQuery => stats_data' = stats_data]_vars
    /\ [][last'.step = "tick" =>
             /\ stats' = stats
             /\ server_index' = server_index
             /\ selected' = selected
             /\ connection_sent' = connection_sent
             /\ dashboard' = dashboard
             /\ pending' = pending
         ]_vars

\* two requests have been forwarded and notified; the Timer has fired and
\* the dashboard has queried /stats
C22_Witness ==
    /\ last.step = "tick"
    /\ report.total_requests = 2
    /\ stats.total_requests = 2
    /\ stats.start_time = 0
    /\ http.path = "/stats"
    /\ http.body.total_requests = 2
    /\ stats_data.total_requests = 2
    /\ Len(stats_data.recent_requests) = 2

\* an engine configured with round_robin after n forward events: what it
\* selected, its cursor and its counters
RECURSIVE RoundRobinRun(_)
RoundRobinRun(n) ==
    IF n = 0
    THEN [selected |-> << >>, server_index |-> 0,
          stats |-> [total_requests |-> 0,
                     servers |-> [k \in ServerKeys |-> [requests |-> 0, load |-> 0]],
                     start_time |-> 0]]
    ELSE LET e == RoundRobinRun(n - 1)
             r == GetNextServer("round_robin", e.server_index, e.stats)
         IN [selected |-> Append(e.selected,
                                 [index |-> e.server_index, server |-> r.server]),
             server_index |-> r.server_index,
             stats |-> CountRequest(e.stats, IpStr(SERVERS[r.server].ip))]

\* C23: under a policy name that is neither round_robin nor
\* least_connections every forward event is handled with a selection, and
\* the backends selected and the cursor values are, event by event, those
\* of a round_robin engine that handled as many forward events.
C23_FallbackIsRoundRobin ==
    /\ [](algorithm \notin {"round_robin", "least_connections"} =>
             /\ selected = RoundRobinRun(Len(selected)).selected
             /\ server_index = RoundRobinRun(Len(selected)).server_index
             /\ stats = RoundRobinRun(Len(selected)).stats)
    /\ [][(/\ algorithm \notin {"round_robin", "least_connections"}
           /\ last'.step = "packet"
           /\ IsForward(last'.event)) => Selects]_vars

\* an engine configured with "weighted" has handled five forward events
C23_Witness ==
    /\ algorithm = "weighted"
    /\ Len(selected) = 5
    /\ server_index = 2
    /\ Sel(4) = 1
    /\ Sel(5) = 2
    /\ selected[5].index = 1

\* the request the step answers is for a path its method has no handler for
IsUnknownPath ==
    /\ http' # http
    /\ \/ http'.method = "GET" /\ http'.path # "/stats"
       \/ http'.method = "POST" /\ http'.path \notin {"/update", "/reset"}

\* C24: a GET for a path other than /stats and a POST for a path other than
\* /update and /reset are answered 404, an OPTIONS request is answered 200,
\* and none of them changes the store.
C24_UnknownPath ==
    /\ [][IsUnknownPath => http'.status = 404 /\ stats_data' = stats_data]_vars
    /\ [][(http' # http /\ http'.method = "OPTIONS") =>
             http'.status = 200 /\ http'.body = "none" /\ stats_data' = stats_data]_vars
    /\ [](http.method = "GET" /\ http.path # "/stats" => http.status = 404)
    /\ [](http.method = "POST" /\ http.path \notin {"/update", "/reset"} => http.status = 404)

\* a GET /reset has been answered 404 by a store that holds 49 requests
C24_Witness ==
    /\ http.method = "GET"
    /\ http.path = "/reset"
    /\ http.status = 404
    /\ stats_data.total_requests = 49
    /\ Len(stats_data.recent_requests) = 49

\* the step is a POST /update that ends without a 200
IsFailedUpdate ==
    /\ http'.method = "POST"
    /\ http'.path = "/update"
    /\ http'.status # 200
    /\ \/ http' # http
       \/ stats_data' # stats_data

\* C25: a POST /update that does not end with 200 (no Content-Length, a
\* body that is not JSON, JSON that is not an object, a server_ip that
\* cannot be looked up) leaves the store as it was before the request.
C25_FailedUpdateChangesNothing ==
    [][IsFailedUpdate => stats_data' = stats_data]_vars

\* the notifications for backend b that are on their way to the server
Underway(b) == { r \in pending : r.req.data.server_ip = b }

\* the notifications for backend b that the server will never see
Lost(b) ==
    stats.servers[b].requests - stats_data.servers[b].requests
       - Cardinality(Underway(b))

\* C26: with one engine as the only source of updates and no reset, the
\* store's total_requests and per-backend counts never exceed the engine's,
\* and equal them once every notification sent so far has been answered;
\* a notification that fails to reach the server leaves the store one
\* behind the engine for its backend, for good.
C26_ServiceFollowsEngine ==
    /\ [](/\ stats_data.total_requests <= stats.total_requests
          /\ \A b \in ServerKeys :
                stats_data.servers[b].requests <= stats.servers[b].requests)
    /\ []((pending = {} /\ Len(updates) = stats.total_requests) =>
             /\ stats_data.total_requests = stats.total_requests
             /\ \A b \in ServerKeys :
                   stats_data.servers[b].requests = stats.servers[b].requests)
    /\ [][\A b \in ServerKeys : Lost(b)' >= Lost(b)]_vars
    /\ [][(pc = "notifying" /\ dashboard'.state = "error") =>
             \A b \in ServerKeys :
                Lost(b)' = IF b = dashboard.data.server_ip
                           THEN Lost(b) + 1 ELSE Lost(b)]_vars

\* the notification for the first backend was refused; the two after it
\* have been answered
C26_Witness ==
    /\ pc = "idle"
    /\ pending = {}
    /\ stats.total_requests = 3
    /\ stats_data.total_requests = 2
    /\ stats.servers["10.0.0.1"].requests = 1
    /\ stats_data.servers["10.0.0.1"].requests = 0
    /\ Lost("10.0.0.1") = 1
    /\ stats_data.servers["10.0.0.2"].requests = 1
    /\ stats_data.servers["10.0.0.3"].requests = 1
    /\ dashboard.state = "ok"

\* the per-backend request counts of the engine
Counts == { stats.servers[b].requests : b \in ServerKeys }

\* C27: from the initial state, under round_robin and under
\* least_connections, the largest and the smallest per-backend request
\* count of the engine never differ by more than 1.
C27_CountsWithinOne ==
    algorithm \in {"round_robin", "least_connections"} =>
        \A x, y \in Counts : x - y <= 1

\* least_connections has handled four forward events: 2, 1 and 1
C27_Witness ==
    /\ algorithm = "least_connections"
    /\ stats.total_requests = 4
    /\ stats.servers["10.0.0.1"].requests = 2
    /\ stats.servers["10.0.0.2"].requests = 1
    /\ stats.servers["10.0.0.3"].requests = 1

\* C28: every parsed IP packet for the virtual address is handled as a
\* forward candidate whatever its source, a configured backend included:
\* a backend is selected, the counters of the selected backend and the
\* total go up by one, and the one message sent for the event is the
\* forward FlowIntent to the selected backend, never a reverse FlowIntent.
C28_ForwardWhateverSource ==
    /\ [][(last'.step = "packet" /\ IsForward(last'.event)) =>
             /\ Selects
             /\ stats'.total_requests = stats.total_requests + 1
             /\ stats' = CountRequest(stats,
                           IpStr(SERVERS[selected'[Len(selected')].server].ip))
         ]_vars
    /\ []((last.step \in {"packet", "return"} /\ IsForward(last.event)) =>
             /\ Len(selected) > 0
             /\ connection_sent =
                   IF pc = "notifying" THEN << >>
                   ELSE << ForwardFlow(last.event, LastSelected) >>
             /\ \A i \in 1..Len(connection_sent) :
                   connection_sent[i] # ReverseFlow(last.event))

\* a packet from backend 10.0.0.1 to the virtual address got a forward
\* rule to the backend selected for it
C28_Witness ==
    /\ IsForward(last.event)
    /\ last.event.srcip = SERVERS[1].ip
    /\ FromBackend(last.event)
    /\ pc = "idle"
    /\ stats.total_requests = 2
    /\ Sel(2) = 2
    /\ connection_sent = << ForwardFlow(last.event, SERVERS[2]) >>

\* an engine with policy alg after n forward events, nothing said of the
\* packets: what it selected, its cursor and its counters
RECURSIVE PolicyRun(_, _)
PolicyRun(alg, n) ==
    IF n = 0
    THEN [selected |-> << >>, server_index |-> 0,
          stats |-> [total_requests |-> 0,
                     servers |-> [k \in ServerKeys |-> [requests |-> 0, load |-> 0]],
                     start_time |-> 0]]
    ELSE LET e == PolicyRun(alg, n - 1)
             r == GetNextServer(alg, e.server_index, e.stats)
         IN [selected |-> Append(e.selected,
                                 [index |-> e.server_index, server |-> r.server]),
             server_index |-> r.server_index,
             stats |-> CountRequest(e.stats, IpStr(SERVERS[r.server].ip))]

\* C29: the backend chosen for a forward event depends on the policy and on
\* how many forward events were handled before it, and on nothing else:
\* whatever the client addresses, the ingress ports and the ARP, reverse
\* and ignored events in between, a run that has handled n forward events
\* has selected the backends that the policy selects for n events, so that
\* any two such runs have selected the same sequence.
C29_SelectionIgnoresPacket ==
    /\ selected = PolicyRun(algorithm, Len(selected)).selected
    /\ server_index = PolicyRun(algorithm, Len(selected)).server_index
    /\ stats.total_requests = Len(selected)

\* the fourth forward event came from 10.0.0.9 on port 7, an ARP query was
\* answered after it, and least_connections selected 1, 2, 3, 1
C29_Witness ==
    /\ algorithm = "least_connections"
    /\ Len(selected) = 4
    /\ Sel(1) = 1 /\ Sel(2) = 2 /\ Sel(3) = 3 /\ Sel(4) = 1
    /\ dashboard.data.client_ip = "10.0.0.9"
    /\ last.step = "packet"
    /\ last.event.type = "ARP"

\* the sum of the totals of the instances of the connections in cs
RECURSIVE EnginesTotal(_)
EnginesTotal(cs) ==
    IF cs = {} THEN 0
    ELSE LET c == CHOOSE x \in cs : TRUE
         IN engines[c].stats.total_requests + EnginesTotal(cs \ {c})

\* the sum of the counts for backend b of the instances of the connections in cs
RECURSIVE EnginesCount(_, _)
EnginesCount(cs, b) ==
    IF cs = {} THEN 0
    ELSE LET c == CHOOSE x \in cs : TRUE
         IN engines[c].stats.servers[b].requests + EnginesCount(cs \ {c}, b)

\* C30: every switch connection gets an engine instance of its own, with
\* its own cursor and counters: a step that changes the instance of one
\* connection leaves the instance of every other connection as it was, and
\* each instance selects as its policy does for the events it handled
\* itself.  All instances notify the one store: once every notification
\* has been answered, no reset having come, its total_requests is the sum
\* of the instances' totals.
C30_EnginePerConnection ==
    /\ [][\A c \in DOMAIN engines :
             (c \in DOMAIN engines' /\ engines'[c] # engines[c]) =>
                \A d \in DOMAIN engines \ {c} :
                   d \in DOMAIN engines' /\ engines'[d] = engines[d]]_vars
    /\ [][\A c \in DOMAIN engines' \ DOMAIN engines :
             /\ engines'[c] = NewEngine
             /\ \A d \in DOMAIN engines : engines'[d] = engines[d]]_vars
    /\ [](\A c \in DOMAIN engines :
             LET n == Len(engines[c].selected)
             IN /\ engines[c].stats.total_requests = n
                /\ engines[c].selected = PolicyRun(algorithm, n).selected
                /\ engines[c].server_index = PolicyRun(algorithm, n).server_index
                /\ engines[c].stats = PolicyRun(algorithm, n).stats)
    /\ []((pc = "idle" /\ pending = {}) =>
             /\ stats_data.total_requests = EnginesTotal(DOMAIN engines)
             /\ \A b \in ServerKeys :
                   stats_data.servers[b].requests = EnginesCount(DOMAIN engines, b))

\* two switches under round_robin: the first has handled two forward
\* events, the second one, and the store has counted all three
C30_Witness ==
    /\ algorithm = "round_robin"
    /\ DOMAIN engines = Connections
    /\ pc = "idle"
    /\ pending = {}
    /\ engines["s1"].stats.total_requests = 2
    /\ engines["s1"].server_index = 2
    /\ engines["s2"].stats.total_requests = 1
    /\ engines["s2"].server_index = 1
    /\ stats_data.total_requests = 3
    /\ stats_data.servers["10.0.0.1"].requests = 2

\* C31: the counters of the engine only grow.  No step makes
\* total_requests or the request count of a backend smaller, whatever the
\* step is: a packet, the return of a notification, the periodic report,
\* an update served by the API server or a /reset.  A step that answers
\* /reset clears the store of the API server and leaves the counters of
\* the engine exactly as they were.
C31_EngineCountersGrow ==
    /\ [][/\ stats'.total_requests >= stats.total_requests
          /\ \A k \in ServerKeys :
                stats'.servers[k].requests >= stats.servers[k].requests]_vars
    /\ [][IsReset => (StoreCleared(stats_data') /\ stats' = stats)]_vars

\* the engine has forwarded two requests, the API server had counted
\* them, and a /reset has just cleared the store of the API server
C31_Witness ==
    /\ http.path = "/reset"
    /\ stats.total_requests = 2
    /\ stats.servers["10.0.0.1"].requests = 1
    /\ stats.servers["10.0.0.2"].requests = 1
    /\ stats_data.total_requests = 0
    /\ pending = {}

\* the window of response times of backend k
Window(sd, k) == sd.servers[k].response_times

\* C32: an /update for a known backend appends exactly one sample to the
\* window of that backend, at its end, and to no other window: the window
\* keeps its earlier samples in their order (its oldest one leaves when
\* the window was full).  When the update carries no response_time the
\* sample is a synthesized one and lies between 50 and 100; when it
\* carries a response_time the sample is exactly that value.  Whatever
\* the hash value, the synthesized sample lies between 50 and 100.
C32_OneSamplePerUpdate ==
    /\ [][(IsUpdate /\ Named(UpdateInput) \in ApiServerKeys) =>
            LET u == UpdateInput
                k == Named(u)
                w == Window(stats_data, k)
                v == Window(stats_data', k)
            IN /\ Len(v) = Min(Len(w) + 1, DequeMaxLen)
               /\ Len(v) > 0
               /\ Len(v) > 0 =>
                     /\ SubSeq(v, 1, Len(v) - 1) =
                           IF Len(w) < DequeMaxLen THEN w
                           ELSE SubSeq(w, 2, Len(w))
                     /\ "response_time" \in u.data.keys =>
                           v[Len(v)] = u.data.response_time
                     /\ "response_time" \notin u.data.keys =>
                           v[Len(v)] \in 50..100
               /\ \A j \in ApiServerKeys \ {k} :
                     Window(stats_data', j) = Window(stats_data, j)]_vars
    /\ [](\A h \in (0 - MaxHash)..MaxHash : Synth(h) \in 50..100)

\* the first backend has had an update carrying the response time 120 and
\* then one carrying none, with a negative hash: its window holds 120 and
\* the synthesized 99
C32_Witness ==
    /\ Window(stats_data, "10.0.0.1") = <<120, 99>>
    /\ Len(updates) = 2
    /\ "response_time" \notin updates[2].data.keys
    /\ updates[2].h = -1
    /\ http.path = "/update"

=============================================================================
